---- MODULE Spec2Model ----
(***************************************************************************)
(* Letta chat pipelines: the send / poll / extract / format protocol of    *)
(* the pipeline variants of this repository.                               *)
(*                                                                         *)
(*   final     src/lettapipeline_final.py     (letta client, sync)         *)
(*   sync      src/lettapipeline.py           (urllib3, one poll)          *)
(*   async     src/async_lettapipeline.py     (httpx, event envelope)      *)
(*   enhanced  src/lettapipeline_enhanced.py  (letta client, chunked)      *)
(*   function  src/letta_openwebuifunction.py (urllib3, event stream)      *)
(*   advanced  src/lettapipeline_advanced.py  (tool calls, cache)          *)
(*   simple    src/lettapipeline_simple.py    (letta client, sync)         *)
(*                                                                         *)
(* A Python str is a sequence of one-character strings, so that slicing,   *)
(* iteration and concatenation are what they are in the code.  The text    *)
(* of a JSON document is a sequence of tokens and json.loads is a parser   *)
(* over it.  hasattr(o, 'f') is "f" \in DOMAIN o.                          *)
(***************************************************************************)
EXTENDS Naturals, Sequences, FiniteSets, TLC

VARIABLES
    variant,            \* which pipeline file runs; concurrent: final, twice
    pc,                 \* position of the invocation in pipe
    body,               \* the body argument of pipe: [title, stream]
    request_time,       \* request_time = time.time()
    attempt,            \* attempt / retry_count of the poll loop
    polls,              \* number of list-messages calls issued so far
    sends,              \* roles of the messages sent to the agent, in order
    window,             \* <<w>>: the list the last poll returned; <<>>: none
    scanned,            \* outcome of the scan of window
    response_text,      \* what get_response_message returned
    ret,                \* what pipe handed to its caller
    out,                \* items the caller drew from the returned generator
    src_msg,            \* <<m>>: the message the reply was extracted from
    all_stale,          \* every window polled so far held no fresh assistant
    events,             \* async: records emitted so far, in order
    accumulated_content,\* async: accumulated_content of the poll loop
    initial_response,   \* sync, async: <<r>>: the answer to the POST
    poll_errors,        \* async, enhanced: poll attempts that raised
    stop_value,         \* enhanced: value of the generator's StopIteration
    chunk_size,         \* enhanced: valves.stream_chunk_size
    conversation,       \* concurrent: the messages of the agent's conversation
    clock,              \* concurrent: the time time.time() and the agent read
    invocations,        \* concurrent: the state of each of the two pipe calls
    pending,            \* concurrent: calls whose message awaits its reply
    fn_pc,              \* function: position of pipe and of its generator
    fn_ret,             \* function: what Pipe.pipe handed to its caller
    fn_requests,        \* function: POSTs issued by _send_request
    fn_stream,          \* function: the event stream the server sends
    fn_rest,            \* function: the part the transport has not delivered
    fn_chunks,          \* function: pieces of the chunk not yet examined
    fn_yielded,         \* function: items the generator has yielded
    fn_from,            \* function: where in fn_stream each item came from
    fn_released,        \* function: response.release_conn() was called
    adv_op,             \* advanced: the operation made last
    adv_caching,        \* advanced: config.enable_caching
    adv_ttl,            \* advanced: config.cache_ttl
    adv_now,            \* advanced: time.time()
    adv_cache,          \* advanced: tool_cache.cache
    adv_call,           \* advanced: <<c>>: the tool call processed last
    adv_response,       \* advanced: what process_tool_call returned for it
    adv_plain,          \* advanced: what it returns with caching disabled
    adv_hit,            \* advanced: <<c>>: the call a cache hit was stored by
    adv_got,            \* advanced: key and value of the last get
    adv_last_set,       \* advanced: per key, time and response of the last set
    adv_setter,         \* advanced: per key, the call whose response is stored
    smp_pc,             \* simple: position of pipe
    smp_body,           \* simple: the body pipe was called with
    smp_after,          \* simple: request_time
    smp_attempt,        \* simple: attempt of get_response_message
    smp_sends,          \* simple: calls of client.send_message
    smp_failed,         \* simple: the client call that raised, if one did
    smp_ret,            \* simple: what pipe handed to its caller
    hk_op,              \* hooks: the hook called last
    hk_valves,          \* hooks: self.valves.base_url
    hk_client,          \* hooks: self.client
    hk_created,         \* hooks: calls of create_client
    hk_arg,             \* hooks: <<body>> given to inlet or outlet
    hk_ret,             \* hooks: <<body>> it returned
    pipe_messages       \* final: the messages argument, until request_time

vars == <<variant, pc, body, request_time, attempt, polls, sends, window,
          scanned, response_text, ret, out, src_msg, all_stale, events,
          accumulated_content, initial_response, poll_errors, stop_value,
          chunk_size, conversation, clock, invocations, pending,
          fn_pc, fn_ret, fn_requests, fn_stream, fn_rest, fn_chunks,
          fn_yielded, fn_from, fn_released,
          adv_op, adv_caching, adv_ttl, adv_now, adv_cache, adv_call,
          adv_response, adv_plain, adv_hit, adv_got, adv_last_set,
          adv_setter,
          smp_pc, smp_body, smp_after, smp_attempt, smp_sends, smp_failed,
          smp_ret,
          hk_op, hk_valves, hk_client, hk_created, hk_arg, hk_ret,
          pipe_messages>>

\* The variables of the two concurrent calls, and those of the single call.
conc_vars == <<conversation, clock, invocations, pending>>

\* The variables of letta_openwebuifunction.py.
fn_vars == <<fn_pc, fn_ret, fn_requests, fn_stream, fn_rest, fn_chunks,
             fn_yielded, fn_from, fn_released>>

\* The variables of lettapipeline_advanced.py.
adv_vars == <<adv_op, adv_caching, adv_ttl, adv_now, adv_cache, adv_call,
              adv_response, adv_plain, adv_hit, adv_got, adv_last_set,
              adv_setter>>

\* The variables of lettapipeline_simple.py.
smp_vars == <<smp_pc, smp_body, smp_after, smp_attempt, smp_sends,
              smp_failed, smp_ret>>

\* The variables of the hooks of lettapipeline_final.py.
hk_vars == <<hk_op, hk_valves, hk_client, hk_created, hk_arg, hk_ret>>

\* The variables of the files other than the four pipelines.
other_vars == <<fn_vars, adv_vars, smp_vars, hk_vars>>

\* Those, and the messages argument that only the first steps of pipe of
\* lettapipeline_final.py read.
ext_vars == <<other_vars, pipe_messages>>

pipe_vars == <<pc, body, request_time, attempt, polls, sends, window,
               scanned, response_text, ret, out, src_msg, all_stale, events,
               accumulated_content, initial_response, poll_errors, stop_value,
               chunk_size>>

(***************************************************************************)
(* Bounds.                                                                 *)
(***************************************************************************)
MaxWindow == 2      \* messages in one polled list
MaxTime == 2        \* timestamps are 0 .. MaxTime
MaxChunk == 3       \* valves.stream_chunk_size is 1 .. MaxChunk
MaxAttempts == 3    \* valves.max_attempts of the enhanced pipeline

(***************************************************************************)
(* Strings.                                                                *)
(***************************************************************************)
EMPTY == << >>

APOLOGY ==
    <<"I", " ", "a", "p", "o", "l", "o", "g", "i", "z", "e", ",", " ", "b",
      "u", "t", " ", "I", " ", "c", "o", "u", "l", "d", "n", "'", "t", " ",
      "p", "r", "o", "c", "e", "s", "s", " ", "y", "o", "u", "r", " ", "m",
      "e", "s", "s", "a", "g", "e", " ", "a", "t", " ", "t", "h", "i", "s",
      " ", "t", "i", "m", "e", ".">>

FINAL_NAME ==
    <<"L", "e", "t", "t", "a", " ", "C", "h", "a", "t", " ", "w", "i", "t",
      "h", " ", "O", "p", "e", "n", "W", "e", "b", "U", "I", " ", "I", "n",
      "t", "e", "g", "r", "a", "t", "i", "o", "n">>

ERROR_PREFIX ==
    <<"E", "r", "r", "o", "r", " ", "c", "o", "m", "m", "u", "n", "i", "c",
      "a", "t", "i", "n", "g", " ", "w", "i", "t", "h", " ", "a", "g", "e",
      "n", "t", ":", " ">>

SEND_FAILED_PREFIX ==
    <<"F", "a", "i", "l", "e", "d", " ", "t", "o", " ", "s", "e", "n", "d",
      " ", "m", "e", "s", "s", "a", "g", "e", ":", " ">>

SYNC_NAME == <<"L", "e", "t", "t", "a", " ", "C", "h", "a", "t">>

ERR_BODY ==
    <<"I", "n", "t", "e", "r", "n", "a", "l", " ", "S", "e", "r", "v", "e",
      "r", " ", "E", "r", "r", "o", "r">>

ASYNC_NAME ==
    <<"A", "s", "y", "n", "c", " ", "L", "e", "t", "t", "a", " ", "C", "h",
      "a", "t">>

STATUS_ERROR_PREFIX ==
    <<"F", "a", "i", "l", "e", "d", " ", "t", "o", " ", "c", "o", "m", "m",
      "u", "n", "i", "c", "a", "t", "e", " ", "w", "i", "t", "h", " ", "a",
      "g", "e", "n", "t", ":", " ">>

CONNECT_ERROR ==
    <<"F", "a", "i", "l", "e", "d", " ", "t", "o", " ", "c", "o", "n", "n",
      "e", "c", "t", " ", "t", "o", " ", "a", "g", "e", "n", "t", " ", "s",
      "e", "r", "v", "i", "c", "e">>

DECODE_ERROR ==
    <<"F", "a", "i", "l", "e", "d", " ", "t", "o", " ", "p", "r", "o", "c",
      "e", "s", "s", " ", "a", "g", "e", "n", "t", " ", "r", "e", "s", "p",
      "o", "n", "s", "e">>

UNEXPECTED_PREFIX ==
    <<"A", "n", " ", "u", "n", "e", "x", "p", "e", "c", "t", "e", "d", " ",
      "e", "r", "r", "o", "r", " ", "o", "c", "c", "u", "r", "r", "e", "d",
      ":", " ">>

STATUS_500 == <<"5", "0", "0">>

ATTR_ERROR_TEXT ==
    <<"'", "l", "i", "s", "t", "'", " ", "o", "b", "j", "e", "c", "t", " ",
      "h", "a", "s", " ", "n", "o", " ", "a", "t", "t", "r", "i", "b", "u",
      "t", "e", " ", "'", "g", "e", "t", "'">>

ENHANCED_NAME ==
    <<"E", "n", "h", "a", "n", "c", "e", "d", " ", "L", "e", "t", "t", "a",
      " ", "C", "h", "a", "t">>

ENH_ERROR_PREFIX ==
    <<"E", "r", "r", "o", "r", " ", "(", "E", "x", "c", "e", "p", "t", "i",
      "o", "n", ")", ":", " ">>

CALL_ID == <<"c", "a", "l", "l", "-", "1">>

KEY_MESSAGE == <<"m", "e", "s", "s", "a", "g", "e">>

SEND_MESSAGE == <<"s", "e", "n", "d", "_", "m", "e", "s", "s", "a", "g", "e">>

\* Texts the agent replies with, and the text of a raised exception.
HiThere == <<"H", "i", " ", "t", "h", "e", "r", "e">>
Old == <<"o", "l", "d">>
OTHER_TOOL == <<"s", "e", "a", "r", "c", "h">>
KEY_QUERY == <<"q">>
EXC_TEXT == <<"t", "i", "m", "e", "d", " ", "o", "u", "t">>

(***************************************************************************)
(* JSON text and json.loads.  A token is [t, v]: punctuation, a quoted     *)
(* string "str" with its characters, a number "num", white space "ws", or  *)
(* "bad": a bare word that is no JSON literal (the not of '{not json').    *)
(* The documents are flat: a scalar, an array of strings, an object of     *)
(* string members.                                                         *)
(***************************************************************************)
Tok(p) == [t |-> p, v |-> EMPTY]
Str(s) == [t |-> "str", v |-> s]
LB == Tok("{")
RB == Tok("}")
LS == Tok("[")
RS == Tok("]")
COLON == Tok(":")
COMMA == Tok(",")
WS == Tok("ws")
Num(digits) == [t |-> "num", v |-> digits]
Word(s) == [t |-> "bad", v |-> s]

\* Python values json.loads produces.
PyDict(items) == [type |-> "dict", items |-> items, s |-> EMPTY]
PyList(items) == [type |-> "list", items |-> items, s |-> EMPTY]
PyStr(s) == [type |-> "str", items |-> << >>, s |-> s]
PyInt(digits) == [type |-> "int", items |-> << >>, s |-> digits]

Loaded(val) == [ok |-> TRUE, val |-> val]
JSONDecodeError == [ok |-> FALSE, val |-> PyInt(EMPTY)]

Inner(toks) == SubSeq(toks, 2, Len(toks) - 1)

\* members  k : v , k : v ...   (4n - 1 tokens, n >= 1)
IsMembers(ts) ==
    /\ Len(ts) % 4 = 3
    /\ \A i \in 1 .. Len(ts) :
         CASE i % 4 = 1 -> ts[i].t = "str"
           [] i % 4 = 2 -> ts[i] = COLON
           [] i % 4 = 3 -> ts[i].t = "str"
           [] OTHER     -> ts[i] = COMMA

Members(ts) ==
    [n \in 1 .. (Len(ts) + 1) \div 4 |->
        [k |-> ts[4 * n - 3].v, v |-> ts[4 * n - 1].v]]

\* elements  v , v ...   (2n - 1 tokens, n >= 1)
IsElements(ts) ==
    /\ Len(ts) % 2 = 1
    /\ \A i \in 1 .. Len(ts) :
         IF i % 2 = 1 THEN ts[i].t = "str" ELSE ts[i] = COMMA

Elements(ts) ==
    [n \in 1 .. (Len(ts) + 1) \div 2 |-> [k |-> EMPTY, v |-> ts[2 * n - 1].v]]

IsNotSpace(tok) == tok.t # "ws"

JsonParse(toks) ==
    IF Len(toks) = 0 THEN JSONDecodeError
    ELSE IF Len(toks) = 1 THEN
        CASE toks[1].t = "str" -> Loaded(PyStr(toks[1].v))
          [] toks[1].t = "num" -> Loaded(PyInt(toks[1].v))
          [] OTHER -> JSONDecodeError
    ELSE IF toks[1] = LB /\ toks[Len(toks)] = RB THEN
        IF Len(toks) = 2 THEN Loaded(PyDict(<< >>))
        ELSE IF IsMembers(Inner(toks)) THEN Loaded(PyDict(Members(Inner(toks))))
        ELSE JSONDecodeError
    ELSE IF toks[1] = LS /\ toks[Len(toks)] = RS THEN
        IF Len(toks) = 2 THEN Loaded(PyList(<< >>))
        ELSE IF IsElements(Inner(toks)) THEN Loaded(PyList(Elements(Inner(toks))))
        ELSE JSONDecodeError
    ELSE JSONDecodeError

json_loads(text) == JsonParse(SelectSeq(text, IsNotSpace))

\* key in d, d[key] for a dict: the last member with that key.
HasKey(items, key) == \E i \in 1 .. Len(items) : items[i].k = key

Lookup(items, key) ==
    LET last == CHOOSE i \in 1 .. Len(items) :
                  /\ items[i].k = key
                  /\ \A j \in (i + 1) .. Len(items) : items[j].k # key
    IN items[last].v

\* The arguments strings of the tool calls the agent may produce.
ArgsMessage(text) == <<LB, Str(KEY_MESSAGE), COLON, WS, Str(text), RB>>
ArgsQuery == <<LB, Str(KEY_QUERY), COLON, WS, Str(Old), RB>>
ArgsNoMessage == <<LB, RB>>
ArgsNotJson == <<LB, Word(<<"n", "o", "t">>), WS, Word(<<"j", "s", "o", "n">>)>>
ArgsList == <<LS, Str(KEY_MESSAGE), RS>>

\* The characters of a JSON text.
RECURSIVE RawText(_)
RawText(toks) ==
    IF toks = << >> THEN EMPTY
    ELSE (CASE Head(toks).t = "str" -> <<"\"">> \o Head(toks).v \o <<"\"">>
            [] Head(toks).t \in {"num", "bad"} -> Head(toks).v
            [] Head(toks).t = "ws" -> <<" ">>
            [] OTHER -> <<Head(toks).t>>)
         \o RawText(Tail(toks))

\* str(value) of a value json.loads produced (the texts hold no quotes).
Quoted(s) == <<"'">> \o s \o <<"'">>

RECURSIVE ReprItems(_, _)
ReprItems(items, isdict) ==
    IF items = << >> THEN EMPTY
    ELSE (IF isdict THEN Quoted(Head(items).k) \o <<":", " ">> ELSE EMPTY)
         \o Quoted(Head(items).v)
         \o (IF Len(items) > 1 THEN <<",", " ">> ELSE EMPTY)
         \o ReprItems(Tail(items), isdict)

PyStrOf(val) ==
    CASE val.type = "dict" -> <<"{">> \o ReprItems(val.items, TRUE) \o <<"}">>
      [] val.type = "list" -> <<"[">> \o ReprItems(val.items, FALSE) \o <<"]">>
      [] OTHER -> val.s

(***************************************************************************)
(* Values shared by the variants.                                          *)
(***************************************************************************)
\* What a scan of one polled list comes to.
Return(text, i) == [kind |-> "return", text |-> text, src |-> i]
NoReply == [kind |-> "none", text |-> EMPTY, src |-> 0]
Raised == [kind |-> "raise", text |-> EMPTY, src |-> 0]
NotScanned == [kind |-> "pending", text |-> EMPTY, src |-> 0]

\* Optional[str]
Pending == [kind |-> "pending", text |-> EMPTY]
None == [kind |-> "None", text |-> EMPTY]
Text(s) == [kind |-> "str", text |-> s]

\* What pipe hands to its caller.
NotReturned == [kind |-> "none", text |-> EMPTY]
StrValue(s) == [kind |-> "str", text |-> s]
GeneratorOf(s) == [kind |-> "generator", text |-> s]

Truthy(s) == Len(s) > 0

Bodies == [title : BOOLEAN, stream : BOOLEAN]

\* As body_get_title, for a pipe that does not look at the title flag.
body_get_title_never(b) == FALSE

\* body.get("title", False), tested first in pipe.
body_get_title(b) == b.title

RECURSIVE Concat(_)
Concat(chunks) ==
    IF chunks = << >> THEN EMPTY ELSE Head(chunks) \o Concat(Tail(chunks))

(***************************************************************************)
(* Messages of the letta client (final, enhanced): objects with role,      *)
(* created_at, and optionally tool_calls (a list, or None) and text.       *)
(***************************************************************************)
ToolCall(name, args) ==
    [id |-> CALL_ID, function |-> [name |-> name, arguments |-> args]]
ToolCallNoFunction == [id |-> CALL_ID]

ToolCalls(calls) == [none |-> FALSE, calls |-> calls]
ToolCallsNone == [none |-> TRUE, calls |-> << >>]

SendMessage(text) == ToolCall(SEND_MESSAGE, ArgsMessage(text))

ToolMsg(role, t, calls) ==
    [role |-> role, created_at |-> t, tool_calls |-> ToolCalls(calls)]

ClientMessages ==
    {ToolMsg("assistant", t, <<SendMessage(HiThere)>>) : t \in {1, MaxTime}}
    \cup
    { ToolMsg("assistant", 1, <<SendMessage(Old)>>),
      ToolMsg("assistant", MaxTime,
              <<ToolCall(SEND_MESSAGE, ArgsNotJson), SendMessage(HiThere)>>),
      ToolMsg("assistant", MaxTime,
              <<ToolCall(OTHER_TOOL, ArgsQuery), SendMessage(Old)>>),
      ToolMsg("assistant", MaxTime, <<ToolCall(OTHER_TOOL, ArgsQuery)>>),
      ToolMsg("assistant", MaxTime, <<SendMessage(Old), SendMessage(HiThere)>>),
      ToolMsg("assistant", MaxTime, <<SendMessage(EMPTY), SendMessage(HiThere)>>),
      ToolMsg("assistant", MaxTime, <<SendMessage(EMPTY)>>),
      ToolMsg("assistant", MaxTime,
              <<ToolCallNoFunction, ToolCall(SEND_MESSAGE, ArgsNoMessage),
                ToolCall(SEND_MESSAGE, ArgsList),
                ToolCall(SEND_MESSAGE, ArgsNotJson)>>),
      [role |-> "assistant", created_at |-> MaxTime, text |-> HiThere],
      [role |-> "assistant", created_at |-> MaxTime, text |-> HiThere,
       tool_calls |-> ToolCallsNone],
      ToolMsg("user", MaxTime, <<SendMessage(HiThere)>>),
      [role |-> "assistant",
       tool_calls |-> ToolCalls(<<SendMessage(HiThere)>>)] }

\* time.time() when pipe is called: before every message, between the
\* messages created at 1 and those created at MaxTime, or after them all.
RequestTimes == {0, 1, MaxTime}

SeqsUpTo(S, n) == UNION {[1 .. k -> S] : k \in 0 .. n}

ClientWindows == SeqsUpTo(ClientMessages, MaxWindow)

msg_time(msg) == IF "created_at" \in DOMAIN msg THEN msg.created_at ELSE 0

EligibleAnyTime(msg, after_time) == msg.role = "assistant"

\* msg_time > after_time and msg.role == "assistant"
Eligible(msg, after_time) ==
    msg_time(msg) > after_time /\ msg.role = "assistant"

(***************************************************************************)
(* src/lettapipeline_final.py                                              *)
(***************************************************************************)
FINAL_MAX_ATTEMPTS == 5

\* As final_tool_calls, but a decode error ends the loop (break for continue).
RECURSIVE final_tool_calls_break(_, _)
final_tool_calls_break(calls, i) ==
    IF i > Len(calls) THEN None
    ELSE
      LET tool_call == calls[i]
          args == json_loads(tool_call.function.arguments)
      IN IF "function" \in DOMAIN tool_call
            /\ tool_call.function.name = SEND_MESSAGE
         THEN CASE ~args.ok -> None
                [] args.val.type = "dict" ->
                     IF HasKey(args.val.items, KEY_MESSAGE)
                     THEN Text(Lookup(args.val.items, KEY_MESSAGE))
                     ELSE final_tool_calls_break(calls, i + 1)
                [] OTHER -> final_tool_calls_break(calls, i + 1)
         ELSE final_tool_calls_break(calls, i + 1)

\* As final_tool_calls, but a call of another tool ends the loop.
RECURSIVE final_tool_calls_stop_at_other(_, _)
final_tool_calls_stop_at_other(calls, i) ==
    IF i > Len(calls) THEN None
    ELSE
      LET tool_call == calls[i]
          args == json_loads(tool_call.function.arguments)
      IN IF "function" \in DOMAIN tool_call
            /\ tool_call.function.name = SEND_MESSAGE
         THEN CASE ~args.ok ->
                     final_tool_calls_stop_at_other(calls, i + 1)
                [] args.val.type = "dict" ->
                     IF HasKey(args.val.items, KEY_MESSAGE)
                     THEN Text(Lookup(args.val.items, KEY_MESSAGE))
                     ELSE final_tool_calls_stop_at_other(calls, i + 1)
                [] OTHER ->
                     final_tool_calls_stop_at_other(calls, i + 1)
         ELSE IF "function" \in DOMAIN tool_call THEN None
         ELSE final_tool_calls_stop_at_other(calls, i + 1)

\* for tool_call in msg.tool_calls (lines 82-90), from the i-th call on.
RECURSIVE final_tool_calls(_, _)
final_tool_calls(calls, i) ==
    IF i > Len(calls) THEN None
    ELSE
      LET tool_call == calls[i]
          args == json_loads(tool_call.function.arguments)
      IN IF "function" \in DOMAIN tool_call
            /\ tool_call.function.name = SEND_MESSAGE
         THEN CASE ~args.ok ->                 \* except: continue
                     final_tool_calls(calls, i + 1)
                [] args.val.type = "dict" ->
                     IF HasKey(args.val.items, KEY_MESSAGE)
                     THEN Text(Lookup(args.val.items, KEY_MESSAGE))
                     ELSE final_tool_calls(calls, i + 1)
                [] OTHER ->                    \* list, str, int: no return
                     final_tool_calls(calls, i + 1)
         ELSE final_tool_calls(calls, i + 1)

\* for msg in reversed(messages) (lines 76-90), from the i-th message down.
RECURSIVE final_scan_from(_, _, _)
final_scan_from(messages, after_time, i) ==
    IF i = 0 THEN NoReply
    ELSE
      LET msg == messages[i] IN
      IF Eligible(msg, after_time) /\ "tool_calls" \in DOMAIN msg
      THEN IF msg.tool_calls.none
           THEN Raised                         \* for ... in None: TypeError
           ELSE LET r == final_tool_calls(msg.tool_calls.calls, 1) IN
                IF r.kind = "str" THEN Return(r.text, i)
                ELSE final_scan_from(messages, after_time, i - 1)
      ELSE final_scan_from(messages, after_time, i - 1)

final_scan_any_time(messages, after_time) ==
    final_scan_from(messages, 0, Len(messages))

final_scan(messages, after_time) ==
    final_scan_from(messages, after_time, Len(messages))

final_pipe_tail_streams_apology(text, stream) ==
    IF stream
    THEN GeneratorOf(IF text.kind = "str" /\ Truthy(text.text)
                     THEN text.text ELSE APOLOGY)
    ELSE StrValue(IF text.kind = "str" /\ Truthy(text.text)
                  THEN text.text ELSE APOLOGY)

\* As final_pipe_tail, without the else branch of lines 166-167.
final_pipe_tail_no_else(text, stream) ==
    IF text.kind = "str" /\ Truthy(text.text)
    THEN IF stream THEN GeneratorOf(text.text) ELSE StrValue(text.text)
    ELSE NotReturned

\* As final_pipe_tail, with  if response_text is not None  for the test of
\* line 161.
final_pipe_tail_not_none(text, stream) ==
    IF text.kind = "str"
    THEN IF stream THEN GeneratorOf(text.text) ELSE StrValue(text.text)
    ELSE StrValue(APOLOGY)

\* The end of pipe (lines 161-167).
final_pipe_tail(text, stream) ==
    IF text.kind = "str" /\ Truthy(text.text)
    THEN IF stream THEN GeneratorOf(text.text) ELSE StrValue(text.text)
    ELSE StrValue(APOLOGY)

\* Observation for all_stale: no assistant message created after after_time.
NoFresh(messages, after_time) ==
    \A i \in 1 .. Len(messages) :
        ~ /\ messages[i].role = "assistant"
          /\ "created_at" \in DOMAIN messages[i]
          /\ messages[i].created_at > after_time

\* The sources of the prior messages.  A text made by format_source_content
\* is the sequence of its parts: the tags, the values and the newlines.
\* src_info is a dict, or None.
SrcInfo(urls) == [type |-> "dict", urls |-> urls]
SrcInfoNoUrls == [type |-> "dict"]
SrcInfoNone == [type |-> "NoneType"]

GoodSource == [source |-> SrcInfo(<<"url">>), document |-> <<"doc", "", " ">>]
BareSource == [source |-> SrcInfoNoUrls]
EmptyUrlsSource == [source |-> SrcInfo(<< >>), document |-> << >>]
NoSourceKey == [document |-> <<"doc">>]
NoneSource == [source |-> SrcInfoNone, document |-> <<"doc">>]

PriorMessages ==
    { [role |-> "assistant", sources |-> <<GoodSource>>],
      [role |-> "assistant", sources |-> <<BareSource, EmptyUrlsSource>>],
      [role |-> "assistant", sources |-> <<NoSourceKey, NoneSource>>],
      [role |-> "assistant", sources |-> << >>],
      [role |-> "assistant"],
      [role |-> "user", sources |-> <<GoodSource>>] }

\* The messages argument of pipe.
PipeMessages == SeqsUpTo(PriorMessages, MaxWindow)

\* "\n".join(parts) of texts that are sequences of parts.
RECURSIVE join_parts(_)
join_parts(texts) ==
    IF texts = << >> THEN << >>
    ELSE IF Len(texts) = 1 THEN texts[1]
    ELSE texts[1] \o <<"\n">> \o join_parts(Tail(texts))

\* str(doc).replace('\xa0', ' ').strip()
strip_doc(doc) == IF doc = " " THEN "" ELSE doc

IsTruthyDoc(doc) == doc # ""

\* Lines 48-58: the context elements of source['document'], a list.
source_context(document) ==
    LET kept == SelectSeq(document, IsTruthyDoc)
        source_content == [k \in 1 .. Len(kept) |-> <<strip_doc(kept[k])>>]
    IN IF source_content # << >>
       THEN << <<"<source_context>">>, join_parts(source_content),
               <<"</source_context>">> >>
       ELSE << >>

\* format_source_content (lines 32-65): '' without the key 'source' and
\* when an exception is caught ('urls' in None raises TypeError).
format_source_content(source) ==
    IF "source" \notin DOMAIN source THEN << >>
    ELSE IF source.source.type # "dict" THEN << >>
    ELSE LET src_info == source.source
             source_id ==
               IF "urls" \in DOMAIN src_info /\ src_info.urls # << >>
               THEN << <<"<source_id>", src_info.urls[1], "</source_id>">> >>
               ELSE << >>
             context ==
               IF "document" \in DOMAIN source
               THEN source_context(source.document) ELSE << >>
         IN join_parts(<< <<"<source>">> >> \o source_id \o context
                       \o << <<"</source>">> >>)

\* for source in msg['sources'] (lines 126-129)
RECURSIVE contents_of_sources(_)
contents_of_sources(sources) ==
    IF sources = << >> THEN << >>
    ELSE LET source_content == format_source_content(Head(sources)) IN
         (IF Len(source_content) > 0 THEN <<source_content>> ELSE << >>)
         \o contents_of_sources(Tail(sources))

\* for msg in messages (lines 121-129): source_contents
RECURSIVE final_source_contents(_)
final_source_contents(messages) ==
    IF messages = << >> THEN << >>
    ELSE LET msg == Head(messages) IN
         (IF msg.role = "assistant" /\ "sources" \in DOMAIN msg
          THEN contents_of_sources(msg.sources) ELSE << >>)
         \o final_source_contents(Tail(messages))

\* As final_send_context, with one system message for each source.
final_send_context_each(sent, source_contents) ==
    sent \o [k \in 1 .. Len(source_contents) |-> "system"]

\* if source_contents: self.client.send_message(role="system")
\* (lines 132-146)
final_send_context(sent, source_contents) ==
    IF source_contents # << >> THEN Append(sent, "system") ELSE sent

\* pipe is called (lines 107-146).  When the messages argument holds
\* sources that format to text, they are sent first, as one system message
\* (lines 131-146); an exception of that send ends pipe (lines 169-172).
Final_pipe ==
    /\ variant = "final" /\ pc = "idle"
    /\ \E b \in Bodies :
         /\ body' = b
         /\ IF body_get_title(b)
            THEN /\ ret' = StrValue(FINAL_NAME)
                 /\ pc' = "done"
                 /\ UNCHANGED <<sends, pipe_messages>>
            ELSE \E messages \in PipeMessages :
                 LET source_contents == final_source_contents(messages) IN
                 /\ pipe_messages' = messages
                 /\ sends' = final_send_context(sends, source_contents)
                 /\ \/ /\ pc' = "time"
                       /\ UNCHANGED ret
                    \/ /\ source_contents # << >>
                       /\ ret' = StrValue(ERROR_PREFIX \o EXC_TEXT)
                       /\ pc' = "done"
    /\ UNCHANGED <<variant, request_time, attempt, polls, window, scanned,
                   response_text, out, src_msg, all_stale, events,
                   accumulated_content, initial_response, poll_errors, stop_value,
                   chunk_size>>
    /\ UNCHANGED <<conc_vars, other_vars>>

\* request_time = time.time() (line 149), after the context was sent.  The
\* messages argument is not read again.
Final_request_time ==
    /\ variant = "final" /\ pc = "time"
    /\ \E now \in RequestTimes : request_time' = now
    /\ pc' = "send"
    /\ pipe_messages' = << >>
    /\ UNCHANGED <<variant, body, attempt, polls, sends, window, scanned,
                   response_text, ret, out, src_msg, all_stale, events,
                   accumulated_content, initial_response, poll_errors, stop_value,
                   chunk_size>>
    /\ UNCHANGED <<conc_vars, other_vars>>

final_send_user_twice(sent) == Append(Append(sent, "user"), "user")

\* The one message that lines 152-156 send.
final_send_user(sent) == Append(sent, "user")

\* self.client.send_message(role="user") (lines 152-156, 169-172).
Final_send_message ==
    /\ variant = "final" /\ pc = "send"
    /\ sends' = final_send_user(sends)
    /\ \/ /\ pc' = "get"
          /\ UNCHANGED ret
       \/ /\ ret' = StrValue(ERROR_PREFIX \o EXC_TEXT)
          /\ pc' = "done"
    /\ UNCHANGED <<variant, body, request_time, attempt, polls, window,
                   scanned, response_text, out, src_msg, all_stale, events,
                   accumulated_content, initial_response, poll_errors, stop_value,
                   chunk_size>>
    /\ UNCHANGED <<conc_vars, ext_vars>>

\* self.client.get_messages(limit=10) (line 74), or it raises (lines 97-99).
Final_get_messages ==
    /\ variant = "final" /\ pc = "get"
    /\ polls' = polls + 1
    /\ \/ /\ \E w \in ClientWindows : window' = <<w>>
          /\ scanned' = NotScanned
          /\ pc' = "scan"
          /\ UNCHANGED <<response_text, ret>>
       \/ /\ response_text' = None
          /\ ret' = final_pipe_tail(None, body.stream)
          /\ pc' = "done"
          /\ UNCHANGED <<window, scanned>>
    /\ UNCHANGED <<variant, body, request_time, attempt, sends, out, src_msg,
                   all_stale, events, accumulated_content, initial_response,
                   poll_errors,
                   stop_value, chunk_size>>
    /\ UNCHANGED <<conc_vars, ext_vars>>

\* The for loop over the polled list (lines 76-90).
Final_scan ==
    /\ variant = "final" /\ pc = "scan"
    /\ LET messages == window[1]
           r == final_scan(messages, request_time)
       IN /\ scanned' = r
          /\ all_stale' = (all_stale /\ NoFresh(messages, request_time))
          /\ CASE r.kind = "return" ->
                    /\ response_text' = Text(r.text)
                    /\ src_msg' = <<messages[r.src]>>
                    /\ ret' = final_pipe_tail(Text(r.text), body.stream)
                    /\ pc' = "done"
               [] r.kind = "raise" ->
                    /\ response_text' = None
                    /\ ret' = final_pipe_tail(None, body.stream)
                    /\ pc' = "done"
                    /\ UNCHANGED src_msg
               [] OTHER ->
                    /\ pc' = "sleep"
                    /\ UNCHANGED <<response_text, ret, src_msg>>
    /\ UNCHANGED <<variant, body, request_time, attempt, polls, sends, window,
                   out, events, accumulated_content, initial_response,
                   poll_errors,
                   stop_value, chunk_size>>
    /\ UNCHANGED <<conc_vars, ext_vars>>

\* attempt += 1; sleep or leave the loop (lines 92-96).
Final_next_attempt ==
    /\ variant = "final" /\ pc = "sleep"
    /\ attempt' = attempt + 1
    /\ IF attempt + 1 < FINAL_MAX_ATTEMPTS
       THEN /\ pc' = "get"
            /\ window' = << >>
            /\ scanned' = NotScanned
            /\ UNCHANGED <<response_text, ret>>
       ELSE /\ UNCHANGED <<window, scanned>>
            /\ response_text' = None
            /\ ret' = final_pipe_tail(None, body.stream)
            /\ pc' = "done"
    /\ UNCHANGED <<variant, body, request_time, polls, sends, out, src_msg,
                   all_stale, events, accumulated_content, initial_response,
                   poll_errors,
                   stop_value, chunk_size>>
    /\ UNCHANGED <<conc_vars, ext_vars>>

\* for char in response: yield char (lines 103-104): the item after n items.
final_char(response, n) == <<response[n + 1]>>

\* The caller draws the next item of stream_response (lines 101-105): the
\* next character, or the end of the generator.
Final_stream_response ==
    /\ variant = "final" /\ pc = "done"
    /\ ret.kind = "generator"
    /\ IF Len(out) < Len(ret.text)
       THEN out' = Append(out, final_char(ret.text, Len(out))) /\ pc' = pc
       ELSE pc' = "exhausted" /\ UNCHANGED out
    /\ UNCHANGED <<variant, body, request_time, attempt, polls, sends,
                   window, scanned, response_text, ret, src_msg, all_stale,
                   events, accumulated_content, initial_response, poll_errors,
                   stop_value, chunk_size>>
    /\ UNCHANGED <<conc_vars, ext_vars>>

(***************************************************************************)
(* Messages of the REST endpoints (sync, async): JSON objects, here        *)
(* records; d.get(k, default) is Get(d, k, default).  The body of an HTTP  *)
(* answer is a JSON object with a messages member, a JSON array, or text   *)
(* that is no JSON.                                                        *)
(***************************************************************************)
Get(d, k, default) == IF k \in DOMAIN d THEN d[k] ELSE default

EmptyDict == << >>

ToolCallMessage(t, tool_call) ==
    [message_type |-> "tool_call_message", created_at |-> t,
     role |-> "assistant", tool_call |-> tool_call]

RestCall(name, args) == [name |-> name, arguments |-> args]

RestMessages ==
    {ToolCallMessage(t, RestCall(SEND_MESSAGE, ArgsMessage(HiThere))) :
        t \in {1, MaxTime}}
    \cup
    { ToolCallMessage(1, RestCall(SEND_MESSAGE, ArgsMessage(Old))),
      ToolCallMessage(MaxTime, RestCall(SEND_MESSAGE, ArgsNotJson)),
      ToolCallMessage(MaxTime, RestCall(SEND_MESSAGE, ArgsMessage(EMPTY))),
      ToolCallMessage(MaxTime, RestCall(SEND_MESSAGE, ArgsList)),
      ToolCallMessage(MaxTime, RestCall(OTHER_TOOL, ArgsQuery)),
      ToolCallMessage(MaxTime, [name |-> SEND_MESSAGE]),
      [message_type |-> "user_message", created_at |-> MaxTime,
       role |-> "user"] }

Response(status, kind, messages) ==
    [status |-> status, kind |-> kind, messages |-> messages]

ErrorResponses ==
    { Response(200, "undecodable", << >>), Response(500, "undecodable", << >>) }

\* Answers to GET .../messages?limit=10.
GetResponses ==
    {Response(200, "list", w) : w \in SeqsUpTo(RestMessages, MaxWindow)}
    \cup {Response(200, "object", w) : w \in SeqsUpTo(RestMessages, 1)}
    \cup ErrorResponses

\* Answers to POST .../messages: the messages the agent produced for this
\* request, so all created after it was made.
PostResponses(now) ==
    {Response(200, "object", w) :
        w \in SeqsUpTo({m \in RestMessages : m.created_at > now}, MaxWindow)}
    \cup {Response(200, "list", << >>)}
    \cup ErrorResponses

\* response.data.decode('utf-8') of an answer that is no JSON.
response_data(response) == ERR_BODY

(***************************************************************************)
(* src/lettapipeline.py                                                    *)
(***************************************************************************)
\* As sync_message, without the test  if content:.
sync_message_any_content(msg) ==
    IF Get(msg, "message_type", "") = "tool_call_message"
    THEN LET tool_call == Get(msg, "tool_call", EmptyDict) IN
         IF Get(tool_call, "name", EMPTY) = SEND_MESSAGE
         THEN LET args == json_loads(Get(tool_call, "arguments", ArgsNoMessage))
              IN CASE ~args.ok -> Raised
                   [] args.val.type # "dict" -> Raised
                   [] OTHER ->
                        Return(IF HasKey(args.val.items, KEY_MESSAGE)
                               THEN Lookup(args.val.items, KEY_MESSAGE)
                               ELSE EMPTY, 0)
         ELSE NoReply
    ELSE NoReply

\* The body of both scan loops for one message (lines 199-205, 222-229):
\* a reply, nothing, or an exception out of json.loads / args.get.
sync_message(msg) ==
    IF Get(msg, "message_type", "") = "tool_call_message"
    THEN LET tool_call == Get(msg, "tool_call", EmptyDict) IN
         IF Get(tool_call, "name", EMPTY) = SEND_MESSAGE
         THEN LET args == json_loads(Get(tool_call, "arguments", ArgsNoMessage))
              IN CASE ~args.ok -> Raised
                   [] args.val.type # "dict" -> Raised
                   [] OTHER ->
                        LET content ==
                              IF HasKey(args.val.items, KEY_MESSAGE)
                              THEN Lookup(args.val.items, KEY_MESSAGE)
                              ELSE EMPTY
                        IN IF Truthy(content) THEN Return(content, 0)
                           ELSE NoReply
         ELSE NoReply
    ELSE NoReply

\* for msg in initial_response.get('messages', []) inside one try (196-207):
\* the first exception ends the scan.
RECURSIVE sync_initial_from(_, _)
sync_initial_from(messages, i) ==
    IF i > Len(messages) THEN NoReply
    ELSE LET r == sync_message(messages[i]) IN
         CASE r.kind = "return" -> Return(r.text, i)
           [] r.kind = "raise" -> NoReply      \* except: pass
           [] OTHER -> sync_initial_from(messages, i + 1)

sync_initial_scan(response) ==
    IF response.kind = "object"
    THEN sync_initial_from(response.messages, 1)
    ELSE NoReply                              \* json.loads or .get raised

\* for msg in reversed(messages) with the try inside the loop (221-231).
RECURSIVE sync_poll_from(_, _)
sync_poll_from(messages, i) ==
    IF i = 0 THEN NoReply
    ELSE LET r == sync_message(messages[i]) IN
         CASE r.kind = "return" -> Return(r.text, i)
           [] OTHER -> sync_poll_from(messages, i - 1)   \* except: continue

sync_poll_scan(response) ==
    IF /\ response.status = 200
       /\ response.kind = "list"
       /\ Len(response.messages) > 0
    THEN sync_poll_from(response.messages, Len(response.messages))
    ELSE NoReply

\* pipe is called (lines 153-167).
Sync_pipe ==
    /\ variant = "sync" /\ pc = "idle"
    /\ \E b \in Bodies :
         /\ body' = b
         /\ IF body_get_title(b)
            THEN /\ ret' = StrValue(SYNC_NAME)
                 /\ pc' = "done"
                 /\ UNCHANGED request_time
            ELSE /\ \E now \in RequestTimes \ {0} : request_time' = now
                 /\ pc' = "post"
                 /\ UNCHANGED ret
    /\ UNCHANGED <<variant, attempt, polls, sends, window, scanned,
                   response_text, out, src_msg, all_stale, events,
                   accumulated_content, initial_response, poll_errors, stop_value,
                   chunk_size>>
    /\ UNCHANGED <<conc_vars, ext_vars>>

\* http.request('POST', ...) (lines 183-189), or it raises (242-245).
Sync_post ==
    /\ variant = "sync" /\ pc = "post"
    /\ sends' = Append(sends, "user")
    /\ \/ /\ \E r \in PostResponses(request_time) : initial_response' = <<r>>
          /\ pc' = "initial"
          /\ UNCHANGED ret
       \/ /\ ret' = StrValue(ERROR_PREFIX \o EXC_TEXT)
          /\ pc' = "done"
          /\ UNCHANGED initial_response
    /\ UNCHANGED <<variant, body, request_time, attempt, polls, window,
                   scanned, response_text, out, src_msg, all_stale, events,
                   accumulated_content, poll_errors,
                   stop_value, chunk_size>>
    /\ UNCHANGED <<conc_vars, ext_vars>>

\* The status check and the scan of the answer to the POST (lines 190-210).
Sync_initial ==
    /\ variant = "sync" /\ pc = "initial"
    /\ LET response == initial_response[1]
           r == sync_initial_scan(response)
       IN IF response.status # 200
          THEN /\ ret' = StrValue(SEND_FAILED_PREFIX \o response_data(response))
               /\ pc' = "done"
               /\ UNCHANGED <<initial_response, scanned, src_msg>>
          ELSE IF r.kind = "return"
          THEN /\ ret' = StrValue(r.text)
               /\ src_msg' = <<response.messages[r.src]>>
               /\ scanned' = r
               /\ pc' = "done"
               /\ UNCHANGED initial_response
          ELSE /\ pc' = "get"                  \* time.sleep(1)
               /\ UNCHANGED <<initial_response, ret, scanned, src_msg>>
    /\ UNCHANGED <<variant, body, request_time, attempt, polls, sends, window,
                   response_text, out, all_stale, events, accumulated_content,
                   poll_errors,
                   stop_value, chunk_size>>
    /\ UNCHANGED <<conc_vars, ext_vars>>

\* http.request('GET', ...) (lines 213-217), or it raises (232-235).  The
\* answer to the POST is not read again.
Sync_get ==
    /\ variant = "sync" /\ pc = "get"
    /\ polls' = polls + 1
    /\ initial_response' = << >>
    /\ \/ /\ \E r \in GetResponses : window' = <<r>>
          /\ pc' = "scan"
          /\ UNCHANGED ret
       \/ /\ ret' = StrValue(APOLOGY)
          /\ pc' = "done"
          /\ UNCHANGED window
    /\ UNCHANGED <<variant, body, request_time, attempt, sends, scanned,
                   response_text, out, src_msg, all_stale, events,
                   accumulated_content, poll_errors, stop_value, chunk_size>>
    /\ UNCHANGED <<conc_vars, ext_vars>>

\* The scan of the polled list and the end of pipe (lines 218-235).
Sync_scan ==
    /\ variant = "sync" /\ pc = "scan"
    /\ LET response == window[1]
           r == sync_poll_scan(response)
       IN /\ scanned' = r
          /\ IF r.kind = "return"
             THEN /\ ret' = StrValue(r.text)
                  /\ src_msg' = <<response.messages[r.src]>>
             ELSE /\ ret' = StrValue(APOLOGY)
                  /\ UNCHANGED src_msg
    /\ pc' = "done"
    /\ UNCHANGED <<variant, body, request_time, attempt, polls, sends, window,
                   response_text, out, all_stale, events, accumulated_content,
                   initial_response, poll_errors,
                   stop_value, chunk_size>>
    /\ UNCHANGED <<conc_vars, ext_vars>>

(***************************************************************************)
(* src/async_lettapipeline.py                                              *)
(***************************************************************************)
ASYNC_MAX_RETRIES == 5

\* create_stream_event(type, data) (lines 58-65).  A record of the stream:
\* message is data.message, or data.title of a chat:title record.
Completion(message, done) ==
    [type |-> "chat:completion", message |-> message, done |-> done]
ChatError(message) == [type |-> "chat:error", message |-> message, done |-> FALSE]
ChatTitle(title) == [type |-> "chat:title", message |-> title, done |-> FALSE]

RaisedText == [kind |-> "raise", text |-> EMPTY]

\* _extract_message_content (lines 75-83): only JSONDecodeError is caught.
async_extract_message_content(tool_call) ==
    IF Get(tool_call, "name", EMPTY) = SEND_MESSAGE
    THEN LET args == json_loads(Get(tool_call, "arguments", ArgsNoMessage))
         IN CASE ~args.ok -> None
              [] args.val.type # "dict" -> RaisedText   \* no attribute get
              [] OTHER ->
                   Text(IF HasKey(args.val.items, KEY_MESSAGE)
                        THEN Lookup(args.val.items, KEY_MESSAGE)
                        ELSE EMPTY)
    ELSE None

\* _process_messages (lines 85-93), from the i-th message on.
RECURSIVE async_process_messages(_, _)
async_process_messages(messages, i) ==
    IF i > Len(messages) THEN NoReply
    ELSE
      LET msg == messages[i]
          content == async_extract_message_content(
                         Get(msg, "tool_call", EmptyDict))
      IN IF Get(msg, "message_type", "") = "tool_call_message"
         THEN CASE content.kind = "raise" -> Raised
                [] content.kind = "str" /\ Truthy(content.text) ->
                     Return(content.text, i)
                [] OTHER -> async_process_messages(messages, i + 1)
         ELSE async_process_messages(messages, i + 1)

InSeq_never(x, seq) == FALSE

\* content in accumulated_content (line 167)
InSeq(x, seq) == \E k \in 1 .. Len(seq) : seq[k] = x

\* for msg in reversed(messages_data) (lines 163-172), from the i-th message
\* down: the accumulated fragments, the messages they came from, whether
\* an exception left the loop, and that the block of line 162 was entered.
RECURSIVE async_poll_from(_, _, _, _)
async_poll_from(messages, i, acc, srcs) ==
    IF i = 0
    THEN [acc |-> acc, srcs |-> srcs, raised |-> FALSE, listed |-> TRUE]
    ELSE
      LET msg == messages[i]
          content == async_extract_message_content(
                         Get(msg, "tool_call", EmptyDict))
      IN IF Get(msg, "message_type", "") = "tool_call_message"
         THEN CASE content.kind = "raise" ->
                     [acc |-> acc, srcs |-> srcs, raised |-> TRUE,
                      listed |-> TRUE]
                [] /\ content.kind = "str"
                   /\ Truthy(content.text)
                   /\ ~InSeq(content.text, acc) ->
                     async_poll_from(messages, i - 1,
                                     Append(acc, content.text),
                                     Append(srcs, msg))
                [] OTHER -> async_poll_from(messages, i - 1, acc, srcs)
         ELSE async_poll_from(messages, i - 1, acc, srcs)

\* One poll attempt on an answer (lines 159-172): the block of line 162 is
\* entered for a list that is not empty.
async_poll_scan(response, acc, srcs) ==
    IF response.status # 200 \/ response.kind = "undecodable"
    THEN [acc |-> acc, srcs |-> srcs, raised |-> TRUE, listed |-> FALSE]
    ELSE IF response.kind = "list" /\ Len(response.messages) > 0
    THEN async_poll_from(response.messages, Len(response.messages), acc, srcs)
    ELSE [acc |-> acc, srcs |-> srcs, raised |-> FALSE, listed |-> FALSE]

\* " ".join(accumulated_content)
RECURSIVE JoinSpace(_)
JoinSpace(acc) ==
    IF acc = << >> THEN EMPTY
    ELSE IF Len(acc) = 1 THEN acc[1]
    ELSE acc[1] \o <<" ">> \o JoinSpace(Tail(acc))

\* As Fragments, each record marked done.
Fragments_done(acc, from) ==
    [k \in 1 .. (Len(acc) - from) |-> Completion(acc[from + k], TRUE)]

\* The incremental records of the fragments appended by one scan.
Fragments(acc, from) ==
    [k \in 1 .. (Len(acc) - from) |-> Completion(acc[from + k], FALSE)]

async_poll_returns_never(r) == FALSE

\* if accumulated_content: ... return (lines 174-179), inside the block of
\* line 162 and after its for loop.
async_poll_returns(r) == r.listed /\ ~r.raised /\ r.acc # << >>

async_retry_unchanged(retry_count) == retry_count

\* retry_count += 1 (lines 181, 184).
async_retry_count(retry_count) == retry_count + 1

\* The record that follows the while loop (lines 188-194).
ApologyRecord == Completion(APOLOGY, TRUE)

\* pipe is called and its first record drawn (lines 99-117).  body.stream
\* is not read; the time of the request is recorded for the properties.
Async_pipe ==
    /\ variant = "async" /\ pc = "idle"
    /\ \E b \in {x \in Bodies : ~x.stream} :
         /\ body' = b
         /\ IF body_get_title(b)
            THEN /\ events' = <<ChatTitle(ASYNC_NAME)>>
                 /\ pc' = "done"
                 /\ UNCHANGED request_time
            ELSE /\ events' = <<Completion(EMPTY, FALSE)>>
                 /\ \E now \in RequestTimes \ {0} : request_time' = now
                 /\ pc' = "post"
    /\ UNCHANGED <<variant, attempt, polls, sends, window, scanned,
                   response_text, ret, out, src_msg, all_stale,
                   accumulated_content, initial_response, poll_errors,
                   stop_value, chunk_size>>
    /\ UNCHANGED <<conc_vars, ext_vars>>

\* client.post, raise_for_status, response.json and the check of the
\* initial response (lines 126-143), with the handlers of lines 196-218.
Async_post ==
    /\ variant = "async" /\ pc = "post"
    /\ sends' = Append(sends, "user")
    /\ \/ /\ events' = Append(events, ChatError(CONNECT_ERROR))
          /\ pc' = "done"
          /\ UNCHANGED <<initial_response, scanned, src_msg>>
       \/ \E response \in PostResponses(request_time) :
            LET r == async_process_messages(response.messages, 1) IN
            /\ initial_response' = IF response.status = 200
                                      /\ response.kind = "object"
                                      /\ r.kind = "none"
                                   THEN << >> ELSE <<response>>
            /\ CASE response.status # 200 ->
                      /\ events' = Append(events,
                            ChatError(STATUS_ERROR_PREFIX \o STATUS_500))
                      /\ pc' = "done"
                      /\ UNCHANGED <<scanned, src_msg>>
                 [] response.status = 200 /\ response.kind = "undecodable" ->
                      /\ events' = Append(events, ChatError(DECODE_ERROR))
                      /\ pc' = "done"
                      /\ UNCHANGED <<scanned, src_msg>>
                 [] response.status = 200 /\ response.kind = "list" ->
                      /\ events' = Append(events,
                            ChatError(UNEXPECTED_PREFIX \o ATTR_ERROR_TEXT))
                      /\ pc' = "done"
                      /\ UNCHANGED <<scanned, src_msg>>
                 [] OTHER ->
                      CASE r.kind = "return" ->
                             /\ events' = Append(events,
                                                 Completion(r.text, TRUE))
                             /\ scanned' = r
                             /\ src_msg' = <<response.messages[r.src]>>
                             /\ pc' = "done"
                        [] r.kind = "raise" ->
                             /\ events' = Append(events,
                                   ChatError(UNEXPECTED_PREFIX
                                             \o ATTR_ERROR_TEXT))
                             /\ pc' = "done"
                             /\ UNCHANGED <<scanned, src_msg>>
                        [] OTHER ->
                             /\ pc' = "poll"
                             /\ UNCHANGED <<events, scanned, src_msg>>
    /\ UNCHANGED <<variant, body, request_time, attempt, polls, window,
                   response_text, ret, out, all_stale, accumulated_content,
                   poll_errors, stop_value, chunk_size>>
    /\ UNCHANGED <<conc_vars, ext_vars>>

\* asyncio.sleep(2) and client.get (lines 151-158): an answer arrives, or
\* the call raises and the handler of lines 182-185 uses up the attempt.
Async_get ==
    /\ variant = "async" /\ pc = "poll"
    /\ polls' = polls + 1
    /\ \/ /\ \E r \in GetResponses : window' = <<r>>
          /\ pc' = "scan"
          /\ UNCHANGED <<attempt, events, poll_errors>>
       \/ /\ attempt' = async_retry_count(attempt)
          /\ poll_errors' = poll_errors + 1
          /\ window' = << >>
          /\ IF async_retry_count(attempt) < ASYNC_MAX_RETRIES
             THEN pc' = "poll" /\ UNCHANGED events
             ELSE pc' = "done" /\ events' = Append(events, ApologyRecord)
    /\ UNCHANGED <<variant, body, request_time, sends, scanned,
                   response_text, ret, out, src_msg, all_stale,
                   accumulated_content, initial_response, stop_value,
                   chunk_size>>
    /\ UNCHANGED <<conc_vars, ext_vars>>

\* raise_for_status, json and the scan of the polled list (lines 159-185),
\* then the next attempt or the end of the loop (lines 150, 188-194).
Async_scan ==
    /\ variant = "async" /\ pc = "scan"
    /\ LET r == async_poll_scan(window[1], accumulated_content, src_msg)
           emitted == events \o Fragments(r.acc, Len(accumulated_content))
           joined == IF r.listed /\ ~r.raised /\ r.acc # << >>
                     THEN <<Completion(JoinSpace(r.acc), TRUE)>>
                     ELSE << >>
       IN /\ accumulated_content' = r.acc
          /\ src_msg' = r.srcs
          /\ poll_errors' = IF r.raised THEN poll_errors + 1 ELSE poll_errors
          /\ IF async_poll_returns(r)
             THEN /\ events' = emitted \o joined
                  /\ pc' = "done"
                  /\ UNCHANGED <<attempt, window>>
             ELSE /\ attempt' = async_retry_count(attempt)
                  /\ IF async_retry_count(attempt) < ASYNC_MAX_RETRIES
                     THEN /\ pc' = "poll"
                          /\ window' = << >>
                          /\ events' = emitted \o joined
                     ELSE /\ pc' = "done"
                          /\ events' = emitted \o joined \o <<ApologyRecord>>
                          /\ UNCHANGED window
    /\ UNCHANGED <<variant, body, request_time, polls, sends, scanned,
                   response_text, ret, out, all_stale, initial_response,
                   stop_value, chunk_size>>
    /\ UNCHANGED <<conc_vars, ext_vars>>

\* As async_cancelled, with a handler of lines 182-185 that catches the
\* CancelledError and goes on to the next attempt.
async_cancel_caught(at) == "poll"

\* Where CancelledError, raised at an await of lines 126-158, leaves the
\* generator: it is no Exception, so no handler of lines 182-218 catches it
\* and it leaves stream_response and pipe.
async_cancelled(at) == "cancelled"

\* The caller cancels the task while it is suspended in the POST, in the
\* delay or in the GET.
Async_cancel ==
    /\ variant = "async" /\ pc \in {"post", "poll"}
    /\ pc' = async_cancelled(pc)
    /\ UNCHANGED <<variant, body, request_time, attempt, polls, sends, window,
                   scanned, response_text, ret, out, src_msg, all_stale,
                   events, accumulated_content, initial_response, poll_errors,
                   stop_value, chunk_size>>
    /\ UNCHANGED <<conc_vars, ext_vars>>

(***************************************************************************)
(* src/lettapipeline_enhanced.py                                           *)
(***************************************************************************)
\* ToolResponse.format_response (lines 34-46) of a response with status
\* success and no stdout, stderr.
format_response(tool_name, tool_id, result) ==
    <<"T", "o", "o", "l", " ", "'">> \o tool_name
    \o <<"'", " ", "s", "u", "c", "c", "e", "s", "s">>
    \o (IF Truthy(tool_id)
        THEN <<" ", "(", "I", "D", ":", " ">> \o tool_id \o <<")">>
        ELSE EMPTY)
    \o <<"\n", "R", "e", "s", "u", "l", "t", ":", " ">> \o result

\* process_tool_call (lines 96-117) followed by format_response: None for a
\* call without function, else the formatted response.
enhanced_process_tool_call(tool_call) ==
    IF "function" \notin DOMAIN tool_call THEN None
    ELSE LET args == json_loads(tool_call.function.arguments) IN
         Text(format_response(
                tool_call.function.name,
                Get(tool_call, "id", EMPTY),
                IF args.ok THEN PyStrOf(args.val)
                ELSE RawText(tool_call.function.arguments)))

\* tool_responses of lines 138-142, from the i-th call on.
RECURSIVE enhanced_tool_responses(_, _)
enhanced_tool_responses(calls, i) ==
    IF i > Len(calls) THEN << >>
    ELSE LET r == enhanced_process_tool_call(calls[i]) IN
         (IF r.kind = "str" THEN <<r.text>> ELSE << >>)
         \o enhanced_tool_responses(calls, i + 1)

\* "\n\n".join(tool_responses)
RECURSIVE JoinBlank(_)
JoinBlank(texts) ==
    IF texts = << >> THEN EMPTY
    ELSE IF Len(texts) = 1 THEN texts[1]
    ELSE texts[1] \o <<"\n", "\n">> \o JoinBlank(Tail(texts))

\* for msg in reversed(messages) (lines 132-162), from the i-th message down.
RECURSIVE enhanced_scan_from(_, _, _)
enhanced_scan_from(messages, after_time, i) ==
    IF i = 0 THEN NoReply
    ELSE
      LET msg == messages[i]
          tool_responses ==
              IF /\ "tool_calls" \in DOMAIN msg
                 /\ ~msg.tool_calls.none
                 /\ Len(msg.tool_calls.calls) > 0
              THEN enhanced_tool_responses(msg.tool_calls.calls, 1)
              ELSE << >>
      IN IF Eligible(msg, after_time)
         THEN CASE tool_responses # << >> ->
                     Return(JoinBlank(tool_responses), i)
                [] "tool_return" \in DOMAIN msg ->
                     Return(format_response(
                              <<"t", "o", "o", "l", "_", "r", "e", "t", "u",
                                "r", "n">>,
                              Get(msg, "tool_call_id", EMPTY),
                              msg.tool_return), i)
                [] "text" \in DOMAIN msg -> Return(msg.text, i)
                [] "message" \in DOMAIN msg -> Return(msg.message, i)
                [] OTHER -> enhanced_scan_from(messages, after_time, i - 1)
         ELSE enhanced_scan_from(messages, after_time, i - 1)

enhanced_scan(messages, after_time) ==
    enhanced_scan_from(messages, after_time, Len(messages))

\* response_text[i:i + stream_chunk_size] (line 215), i counted from 0.
enhanced_chunk_short(text, i, size) == SubSeq(text, i + 1, i + size - 1)

enhanced_chunk(text, i, size) ==
    SubSeq(text, i + 1, IF i + size < Len(text) THEN i + size ELSE Len(text))

\* The generator once get_response_message has returned (lines 211-219):
\* it goes on to yield slices, or ends with a value in its StopIteration.
enhanced_pipe_tail(text, stream) ==
    IF text.kind = "str" /\ Truthy(text.text)
    THEN IF stream THEN Pending ELSE Text(text.text)
    ELSE Text(APOLOGY)

\* pipe is called (line 183): the function holds a yield, so the call runs
\* none of its body and hands back a generator; the valves are as set.
Enhanced_pipe ==
    /\ variant = "enhanced" /\ pc = "idle"
    /\ \E b \in Bodies : body' = b
    /\ \E size \in 1 .. MaxChunk : chunk_size' = size
    /\ ret' = GeneratorOf(EMPTY)
    /\ pc' = "created"
    /\ UNCHANGED <<variant, request_time, attempt, polls, sends, window,
                   scanned, response_text, out, src_msg, all_stale, events,
                   accumulated_content, initial_response, poll_errors,
                   stop_value>>
    /\ UNCHANGED <<conc_vars, ext_vars>>

\* The caller draws the first item: the body runs (lines 187-197).
Enhanced_start ==
    /\ variant = "enhanced" /\ pc = "created"
    /\ IF body.title
       THEN /\ stop_value' = Text(ENHANCED_NAME)
            /\ pc' = "done"
            /\ UNCHANGED request_time
       ELSE /\ \E now \in RequestTimes \ {0} : request_time' = now
            /\ pc' = "send"
            /\ UNCHANGED stop_value
    /\ UNCHANGED <<variant, body, attempt, polls, sends, window, scanned,
                   response_text, ret, out, src_msg, all_stale, events,
                   accumulated_content, initial_response, poll_errors,
                   chunk_size>>
    /\ UNCHANGED <<conc_vars, ext_vars>>

\* self.client.send_message (lines 200-206), or it raises (221-224).
Enhanced_send_message ==
    /\ variant = "enhanced" /\ pc = "send"
    /\ sends' = Append(sends, "user")
    /\ \/ /\ pc' = "get"
          /\ UNCHANGED stop_value
       \/ /\ stop_value' = Text(ENH_ERROR_PREFIX \o EXC_TEXT)
          /\ pc' = "done"
    /\ UNCHANGED <<variant, body, request_time, attempt, polls, window,
                   scanned, response_text, ret, out, src_msg, all_stale,
                   events, accumulated_content, initial_response, poll_errors,
                   chunk_size>>
    /\ UNCHANGED <<conc_vars, ext_vars>>

\* self.client.get_messages (line 130); when it raises, the handler of
\* lines 169-171, outside the while loop, returns None.
Enhanced_get_messages ==
    /\ variant = "enhanced" /\ pc = "get"
    /\ polls' = polls + 1
    /\ \/ /\ \E w \in ClientWindows : window' = <<w>>
          /\ pc' = "scan"
          /\ UNCHANGED <<response_text, stop_value, poll_errors>>
       \/ /\ poll_errors' = poll_errors + 1
          /\ response_text' = None
          /\ stop_value' = enhanced_pipe_tail(None, body.stream)
          /\ pc' = "done"
          /\ UNCHANGED window
    /\ UNCHANGED <<variant, body, request_time, attempt, sends, scanned,
                   ret, out, src_msg, all_stale, events, accumulated_content,
                   initial_response, chunk_size>>
    /\ UNCHANGED <<conc_vars, ext_vars>>

\* The for loop over the polled list (lines 132-162); messages is dropped
\* when get_response_message returns.
Enhanced_scan ==
    /\ variant = "enhanced" /\ pc = "scan"
    /\ LET r == enhanced_scan(window[1], request_time) IN
       IF r.kind = "return"
       THEN /\ response_text' = Text(r.text)
            /\ src_msg' = <<window[1][r.src]>>
            /\ stop_value' = enhanced_pipe_tail(Text(r.text), body.stream)
            /\ pc' = IF Truthy(r.text) /\ body.stream THEN "stream" ELSE "done"
            /\ window' = << >>
            /\ UNCHANGED scanned
       ELSE /\ scanned' = r
            /\ pc' = "sleep"
            /\ UNCHANGED <<response_text, src_msg, stop_value, window>>
    /\ UNCHANGED <<variant, body, request_time, attempt, polls, sends, ret,
                   out, all_stale, events, accumulated_content,
                   initial_response, poll_errors, chunk_size>>
    /\ UNCHANGED <<conc_vars, ext_vars>>

\* attempt += 1; sleep or leave the loop (lines 164-168).
Enhanced_next_attempt ==
    /\ variant = "enhanced" /\ pc = "sleep"
    /\ attempt' = attempt + 1
    /\ window' = << >>
    /\ scanned' = NotScanned
    /\ IF attempt + 1 < MaxAttempts
       THEN /\ pc' = "get"
            /\ UNCHANGED <<response_text, stop_value>>
       ELSE /\ response_text' = None
            /\ stop_value' = enhanced_pipe_tail(None, body.stream)
            /\ pc' = "done"
    /\ UNCHANGED <<variant, body, request_time, polls, sends, ret, out,
                   src_msg, all_stale, events, accumulated_content,
                   initial_response, poll_errors, chunk_size>>
    /\ UNCHANGED <<conc_vars, ext_vars>>

\* The caller draws the next item of the stream (lines 214-215): the next
\* slice, or the end of the range and of the generator.
Enhanced_yield ==
    /\ variant = "enhanced" /\ pc = "stream"
    /\ LET i == Len(out) * chunk_size IN
       IF i < Len(response_text.text)
       THEN /\ out' = Append(out, enhanced_chunk(response_text.text, i,
                                                 chunk_size))
            /\ UNCHANGED <<pc, stop_value>>
       ELSE /\ stop_value' = None
            /\ pc' = "exhausted"
            /\ UNCHANGED out
    /\ UNCHANGED <<variant, body, request_time, attempt, polls, sends, window,
                   scanned, response_text, ret, src_msg, all_stale, events,
                   accumulated_content, initial_response, poll_errors,
                   chunk_size>>
    /\ UNCHANGED <<conc_vars, ext_vars>>

(***************************************************************************)
(* Two calls of pipe of src/lettapipeline_final.py that run concurrently   *)
(* against one agent conversation.  Each call runs the code of one call;   *)
(* the agent answers the user messages it was sent, in any order, and      *)
(* stamps each reply with the time it creates it.                          *)
(***************************************************************************)
Procs == {1, 2}

\* The reply the agent produces for the message of call p.
ReplyFor(p) == IF p = 1 THEN HiThere ELSE Old

UserMessage(p, t) ==
    [role |-> "user", created_at |-> t, text |-> HiThere, of |-> p]

AgentReply(p, t) ==
    [role |-> "assistant", created_at |-> t,
     tool_calls |-> ToolCalls(<<SendMessage(ReplyFor(p))>>), of |-> p]

CallState(at, time, n, text, src) ==
    [pc |-> at, request_time |-> time, attempt |-> n, response_text |-> text,
     src |-> src]

\* pipe is called: request_time = time.time() (lines 107-149).
Conc_pipe(p) ==
    /\ variant = "concurrent" /\ invocations[p].pc = "idle"
    /\ invocations' = [invocations EXCEPT ![p] = CallState("send", clock, 0, Pending, 0)]
    /\ UNCHANGED <<variant, pipe_vars, ext_vars, conversation, clock, pending>>

\* self.client.send_message(role="user") (lines 152-156): the message joins
\* the conversation.
Conc_send_message(p) ==
    /\ variant = "concurrent" /\ invocations[p].pc = "send"
    /\ conversation' = Append(conversation, UserMessage(p, clock))
    /\ pending' = pending \cup {p}
    /\ invocations' = [invocations EXCEPT ![p].pc = "get"]
    /\ UNCHANGED <<variant, pipe_vars, ext_vars, clock>>

\* The agent answers one of the messages it was sent, some time later.
Conc_agent(p) ==
    /\ variant = "concurrent" /\ p \in pending
    /\ clock' = clock + 1
    /\ conversation' = Append(conversation, AgentReply(p, clock + 1))
    /\ pending' = pending \ {p}
    /\ UNCHANGED <<variant, pipe_vars, ext_vars, invocations>>

\* One turn of the while loop of get_response_message (lines 73-96):
\* get_messages lists the conversation, the scan returns a reply or the
\* attempt is used up.
Conc_get_messages(p) ==
    /\ variant = "concurrent" /\ invocations[p].pc = "get"
    /\ LET c == invocations[p]
           r == final_scan(conversation, c.request_time)
       IN invocations' =
            [invocations EXCEPT ![p] =
               IF r.kind = "return"
               THEN CallState("done", c.request_time, c.attempt,
                              Text(r.text), conversation[r.src].of)
               ELSE IF c.attempt + 1 < FINAL_MAX_ATTEMPTS
               THEN CallState("get", c.request_time, c.attempt + 1,
                              Pending, 0)
               ELSE CallState("done", c.request_time, c.attempt + 1,
                              None, 0)]
    /\ UNCHANGED <<variant, pipe_vars, ext_vars, conversation, clock, pending>>

(***************************************************************************)
(* src/letta_openwebuifunction.py                                          *)
(*                                                                         *)
(* The text of the event stream is a sequence of atoms: the prefix         *)
(* 'data: ' (six characters), the tokens of a JSON text, and the newline.  *)
(* The transport cuts the text into chunks between atoms.                  *)
(***************************************************************************)
MaxFrames == 2      \* frames of one event stream

DATA == Tok("data: ")
NL == Tok("nl")

MESSAGE_TYPE == <<"m", "e", "s", "s", "a", "g", "e", "_", "t", "y", "p", "e">>
CONTENT == <<"c", "o", "n", "t", "e", "n", "t">>
ASSISTANT_MESSAGE ==
    <<"a", "s", "s", "i", "s", "t", "a", "n", "t", "_", "m", "e", "s", "s",
      "a", "g", "e">>
USAGE_STATISTICS ==
    <<"u", "s", "a", "g", "e", "_", "s", "t", "a", "t", "i", "s", "t", "i",
      "c", "s">>
DONE_TEXT == <<LS, Word(<<"D", "O", "N", "E">>), RS>>
STREAM_ERROR_PREFIX ==
    <<"E", "r", "r", "o", "r", " ", "d", "u", "r", "i", "n", "g", " ", "s",
      "t", "r", "e", "a", "m", "i", "n", "g", ":", " ">>
UNEXPECTED_ERROR_PREFIX ==
    <<"L", "e", "t", "t", "a", " ", "E", "r", "r", "o", "r", ":", " ", "U",
      "n", "e", "x", "p", "e", "c", "t", "e", "d", " ", "e", "r", "r", "o",
      "r", " ", "o", "c", "c", "u", "r", "r", "e", "d", ".", " ">>
KEY_ERROR_TEXT == <<"'", "m", "e", "s", "s", "a", "g", "e", "s", "'">>
RETRY_ERROR_TEXT == <<"R", "e", "t", "r", "y", "E", "r", "r", "o", "r">>
SEND_ATTEMPTS == 3

\* One frame of the event stream: 'data: ' payload and an empty line.
Frame(payload) == <<DATA>> \o payload \o <<NL, NL>>

AssistantFrame(content) ==
    Frame(<<LB, Str(MESSAGE_TYPE), COLON, Str(ASSISTANT_MESSAGE), COMMA,
            Str(CONTENT), COLON, Str(content), RB>>)
UsageFrame == Frame(<<LB, Str(MESSAGE_TYPE), COLON, Str(USAGE_STATISTICS), RB>>)
DoneFrame == Frame(DONE_TEXT)
ListFrame == Frame(ArgsList)

Frames ==
    {AssistantFrame(HiThere), AssistantFrame(Old), AssistantFrame(EMPTY),
     UsageFrame, DoneFrame, ListFrame}

EventStreams == {Concat(fs) : fs \in SeqsUpTo(Frames, MaxFrames)}

\* What the caller may pass as body.
FunctionBodies == {"messages", "tools", "no messages"}

\* Items of the stream: content + "\n", or the json.dumps of a chat:error.
TextItem(content) == [kind |-> "text", text |-> content \o <<"\n">>]
ErrorItem(message) == [kind |-> "chat:error", text |-> message]

\* decoded_chunk.split("\n\n") from the i-th atom on, the current piece
\* having begun at atom start: the pieces, each with the place in the event
\* stream (offset + index in the chunk) where it begins.
Piece(text, at) == [text |-> text, at |-> at]

RECURSIVE split_from(_, _, _, _)
split_from(text, i, start, offset) ==
    IF i > Len(text)
    THEN <<Piece(SubSeq(text, start, Len(text)), offset + start)>>
    ELSE IF i < Len(text) /\ text[i] = NL /\ text[i + 1] = NL
    THEN <<Piece(SubSeq(text, start, i - 1), offset + start)>>
         \o split_from(text, i + 2, i + 2, offset)
    ELSE split_from(text, i + 1, start, offset)

split(text, offset) == split_from(text, 1, 1, offset)

\* chunk.startswith("data: ")
startswith_data(chunk) == Len(chunk) > 0 /\ chunk[1] = DATA

\* chunk.strip()
IsBlank(atom) == atom.t \in {"nl", "ws"}

strip(chunk) ==
    LET solid == {i \in 1 .. Len(chunk) : ~IsBlank(chunk[i])} IN
    IF solid = {} THEN EMPTY
    ELSE SubSeq(chunk,
                CHOOSE i \in solid : \A j \in solid : i <= j,
                CHOOSE i \in solid : \A j \in solid : i >= j)

IsNotBlank(atom) == ~IsBlank(atom)

\* json.loads(chunk[6:]): white space around the document is skipped.
loads_data(chunk) == JsonParse(SelectSeq(Tail(chunk), IsNotBlank))

\* As is_done, for a generator that reads on after the DONE frame.
is_done_never(chunk) == FALSE

\* chunk.strip() == "data: [DONE]"
is_done(chunk) == strip(chunk) = <<DATA>> \o DONE_TEXT

\* What the body of  for chunk in chunks  does with one piece (lines
\* 173-202): "yield" an item, "skip", "return" at the DONE signal, or
\* "raise" into the handler of line 208.
handle_chunk(chunk) ==
    IF startswith_data(chunk)
    THEN LET chunk_data == loads_data(chunk) IN
         IF ~chunk_data.ok THEN [kind |-> "skip", content |-> EMPTY]
         ELSE IF chunk_data.val.type # "dict"
         THEN [kind |-> "raise", content |-> ATTR_ERROR_TEXT]
         ELSE LET items == chunk_data.val.items
                  message_type == IF HasKey(items, MESSAGE_TYPE)
                                  THEN Lookup(items, MESSAGE_TYPE) ELSE EMPTY
                  content == IF HasKey(items, CONTENT)
                             THEN Lookup(items, CONTENT) ELSE EMPTY
              IN IF message_type = ASSISTANT_MESSAGE /\ Truthy(content)
                 THEN [kind |-> "yield", content |-> content]
                 ELSE [kind |-> "skip", content |-> EMPTY]
    ELSE IF is_done(chunk) THEN [kind |-> "return", content |-> EMPTY]
    ELSE [kind |-> "skip", content |-> EMPTY]

\* Pipe.pipe (lines 75-131): the tools branch hands the request to Open
\* WebUI, body["messages"] may raise KeyError, and otherwise the generator
\* of _handle_streaming is returned, not yet started.
Function_pipe ==
    /\ variant = "function" /\ fn_pc = "idle"
    /\ \E b \in FunctionBodies :
         CASE b = "tools" ->
                /\ fn_ret' = [kind |-> "chat completion", text |-> EMPTY]
                /\ fn_pc' = "done"
           [] b = "no messages" ->
                /\ fn_ret' = StrValue(UNEXPECTED_ERROR_PREFIX \o KEY_ERROR_TEXT)
                /\ fn_pc' = "done"
           [] OTHER ->
                /\ fn_ret' = GeneratorOf(EMPTY)
                /\ fn_pc' = "request"
    /\ UNCHANGED <<fn_requests, fn_stream, fn_rest, fn_chunks, fn_yielded,
                   fn_from, fn_released>>
    /\ UNCHANGED <<pipe_messages, variant, pipe_vars, conc_vars, adv_vars, smp_vars, hk_vars>>

\* The caller draws the first item: _send_request posts (lines 154-160),
\* again after a TimeoutError or HTTPError until the third attempt has
\* failed (lines 26-32); what it raises then is reported as an item of the
\* stream (lines 208-215) and response is still None (line 217).
Function_request ==
    /\ variant = "function" /\ fn_pc = "request"
    /\ fn_requests' = fn_requests + 1
    /\ \/ /\ \E s \in EventStreams : fn_stream' = s /\ fn_rest' = s
          /\ fn_pc' = "stream"
          /\ UNCHANGED <<fn_yielded, fn_from>>
       \/ /\ IF fn_requests + 1 < SEND_ATTEMPTS
             THEN /\ fn_pc' = "request"
                  /\ UNCHANGED <<fn_yielded, fn_from>>
             ELSE /\ fn_yielded' = Append(fn_yielded,
                        ErrorItem(STREAM_ERROR_PREFIX \o RETRY_ERROR_TEXT))
                  /\ fn_from' = Append(fn_from, 0)
                  /\ fn_pc' = "done"
          /\ UNCHANGED <<fn_stream, fn_rest>>
    /\ UNCHANGED <<fn_ret, fn_chunks, fn_released>>
    /\ UNCHANGED <<pipe_messages, variant, pipe_vars, conc_vars, adv_vars, smp_vars, hk_vars>>

\* for chunk in response.stream() (lines 167-172): the transport delivers
\* the next atoms of the stream, any number of them, and the chunk is
\* split; or the stream is at its end (line 205); or reading raises (lines
\* 208-215).  The connection is released in each case that ends the
\* generator (lines 216-218).
Function_stream ==
    /\ variant = "function" /\ fn_pc = "stream"
    /\ \/ /\ fn_rest # << >>
          /\ \E n \in 1 .. Len(fn_rest) :
               /\ fn_chunks' = split(SubSeq(fn_rest, 1, n),
                                     Len(fn_stream) - Len(fn_rest))
               /\ fn_rest' = SubSeq(fn_rest, n + 1, Len(fn_rest))
          /\ fn_pc' = "chunks"
          /\ UNCHANGED <<fn_yielded, fn_from, fn_released>>
       \/ /\ fn_rest = << >>
          /\ fn_pc' = "done"
          /\ fn_released' = TRUE
          /\ UNCHANGED <<fn_rest, fn_chunks, fn_yielded, fn_from>>
       \/ /\ fn_rest # << >>
          /\ fn_yielded' = Append(fn_yielded,
                                  ErrorItem(STREAM_ERROR_PREFIX \o EXC_TEXT))
          /\ fn_from' = Append(fn_from, 0)
          /\ fn_pc' = "done"
          /\ fn_released' = TRUE
          /\ UNCHANGED <<fn_rest, fn_chunks>>
    /\ UNCHANGED <<fn_ret, fn_requests, fn_stream>>
    /\ UNCHANGED <<pipe_messages, variant, pipe_vars, conc_vars, adv_vars, smp_vars, hk_vars>>

\* One turn of  for chunk in chunks  (lines 173-202).
Function_chunk ==
    /\ variant = "function" /\ fn_pc = "chunks"
    /\ LET chunk == Head(fn_chunks)
           r == handle_chunk(chunk.text)
       IN /\ fn_chunks' = Tail(fn_chunks)
          /\ CASE r.kind = "yield" ->
                    /\ fn_yielded' = Append(fn_yielded, TextItem(r.content))
                    /\ fn_from' = Append(fn_from, chunk.at)
                    /\ fn_pc' = IF Tail(fn_chunks) = << >>
                                THEN "stream" ELSE "chunks"
                    /\ UNCHANGED fn_released
               [] r.kind = "raise" ->
                    /\ fn_yielded' = Append(fn_yielded,
                          ErrorItem(STREAM_ERROR_PREFIX \o r.content))
                    /\ fn_from' = Append(fn_from, 0)
                    /\ fn_pc' = "done"
                    /\ fn_released' = TRUE
               [] r.kind = "return" ->
                    /\ fn_pc' = "done"
                    /\ fn_released' = TRUE
                    /\ UNCHANGED <<fn_yielded, fn_from>>
               [] OTHER ->
                    /\ fn_pc' = IF Tail(fn_chunks) = << >>
                                THEN "stream" ELSE "chunks"
                    /\ UNCHANGED <<fn_yielded, fn_from, fn_released>>
    /\ UNCHANGED <<fn_ret, fn_requests, fn_stream, fn_rest>>
    /\ UNCHANGED <<pipe_messages, variant, pipe_vars, conc_vars, adv_vars, smp_vars, hk_vars>>

(***************************************************************************)
(* src/lettapipeline_advanced.py: ToolCache and process_tool_call.         *)
(*                                                                         *)
(* Optional[ToolResponse] is << >> for None and <<r>> for a response.  The *)
(* cache is a function of the keys, << >> where the dict has no entry.     *)
(***************************************************************************)
MaxClock == 3       \* time.time() is 0 .. MaxClock
MaxTtl == 2         \* config.cache_ttl is 0 .. MaxTtl

CALL_ID_2 == <<"c", "a", "l", "l", "-", "2">>
SYSTEM_PREFIX == <<"s", "y", "s", "t", "e", "m", ".">>
COMPOSIO_PREFIX == <<"c", "o", "m", "p", "o", "s", "i", "o", ".">>
SYSTEM_TOOL == SYSTEM_PREFIX \o <<"t">>
NAME_A == <<"a">>
NAME_A_B == <<"a", ":", "b">>
ARGS_C == <<Word(<<"c">>)>>
ARGS_B_C == <<Word(<<"b">>), COLON, Word(<<"c">>)>>

AdvToolCall(id, name, args) ==
    [id |-> id, function |-> [name |-> name, arguments |-> args]]

\* The tool calls the agent may make.
AdvCalls ==
    { AdvToolCall(CALL_ID, NAME_A_B, ARGS_C),
      AdvToolCall(CALL_ID, NAME_A, ARGS_B_C),
      AdvToolCall(CALL_ID_2, NAME_A, ARGS_B_C),
      AdvToolCall(CALL_ID, SYSTEM_TOOL, ArgsNoMessage),
      [function |-> [name |-> SYSTEM_TOOL, arguments |-> ArgsNoMessage]],
      ToolCallNoFunction }

\* tool_name.startswith(prefix)
startswith(s, prefix) ==
    Len(s) >= Len(prefix) /\ SubSeq(s, 1, Len(prefix)) = prefix

\* f"{tool_name}:{tool_call.function.arguments}"
cache_key(tool_call) ==
    tool_call.function.name \o <<":">> \o RawText(tool_call.function.arguments)

AdvKeys == {cache_key(c) : c \in {x \in AdvCalls : "function" \in DOMAIN x}}

EmptyCache == [k \in AdvKeys |-> << >>]

ToolResponse(tool_name, tool_id, tool_type, status, result) ==
    [tool_name |-> tool_name, tool_id |-> tool_id, tool_type |-> tool_type,
     status |-> status, result |-> result]

\* As tool_cache_get, with an entry that never expires.
tool_cache_get_no_ttl(cache, key, now, ttl) ==
    IF cache[key] # << >>
    THEN [value |-> <<cache[key][1].response>>, cache |-> cache]
    ELSE [value |-> << >>, cache |-> cache]

\* ToolCache.get (lines 112-118): the value returned and the cache after.
tool_cache_get(cache, key, now, ttl) ==
    IF cache[key] # << >>
    THEN IF now - cache[key][1].timestamp < ttl
         THEN [value |-> <<cache[key][1].response>>, cache |-> cache]
         ELSE [value |-> << >>, cache |-> [cache EXCEPT ![key] = << >>]]
    ELSE [value |-> << >>, cache |-> cache]

\* ToolCache.set (lines 120-124)
tool_cache_set(cache, key, now, response) ==
    [cache EXCEPT ![key] = <<[timestamp |-> now, response |-> response]>>]

\* ToolCache.clear (lines 126-127)
tool_cache_clear(cache) == [k \in DOMAIN cache |-> << >>]

\* The ToolResponse built on lines 239-259.
tool_response(tool_call) ==
    LET tool_name == tool_call.function.name
        loaded == json_loads(tool_call.function.arguments)
        args == IF loaded.ok THEN PyStrOf(loaded.val)
                ELSE RawText(tool_call.function.arguments)
        tool_type == IF startswith(tool_name, SYSTEM_PREFIX) THEN "system"
                     ELSE IF startswith(tool_name, COMPOSIO_PREFIX)
                     THEN "composio" ELSE "custom"
        tool_id == IF "id" \in DOMAIN tool_call THEN <<tool_call.id>>
                   ELSE << >>                \* getattr(tool_call, 'id', None)
    IN ToolResponse(tool_name, tool_id, tool_type, "success", args)

\* process_tool_call (lines 218-265): the response returned, the cache
\* after the call, and whether the response came out of the cache.
process_tool_call(tool_call, enable_caching, cache, now, ttl) ==
    IF "function" \notin DOMAIN tool_call
    THEN [response |-> << >>, cache |-> cache, hit |-> FALSE]
    ELSE IF enable_caching
    THEN LET cached_response == tool_cache_get(cache, cache_key(tool_call),
                                               now, ttl)
         IN IF cached_response.value # << >>
            THEN [response |-> cached_response.value,
                  cache |-> cached_response.cache, hit |-> TRUE]
            ELSE [response |-> <<tool_response(tool_call)>>,
                  cache |-> tool_cache_set(cached_response.cache,
                                           cache_key(tool_call), now,
                                           tool_response(tool_call)),
                  hit |-> FALSE]
    ELSE [response |-> <<tool_response(tool_call)>>, cache |-> cache,
          hit |-> FALSE]

\* The variables that hold what the last operation returned are blank
\* after every other operation.
NotGot == [key |-> EMPTY, value |-> << >>]

NoCallReturned ==
    /\ adv_call' = << >>
    /\ adv_response' = << >>
    /\ adv_plain' = << >>
    /\ adv_hit' = << >>

\* Pipeline.__init__ (lines 146-152) with a config: the cache exists only
\* if enable_caching.
Advanced_init ==
    /\ variant = "advanced" /\ adv_op = "new"
    /\ adv_op' = "init"
    /\ adv_caching' \in BOOLEAN
    /\ adv_ttl' \in 0 .. MaxTtl
    /\ UNCHANGED <<adv_now, adv_cache, adv_call, adv_response, adv_plain,
                   adv_hit, adv_got, adv_last_set, adv_setter>>
    /\ UNCHANGED <<pipe_messages, variant, pipe_vars, conc_vars, fn_vars, smp_vars, hk_vars>>

\* Time passes.
Advanced_time ==
    /\ variant = "advanced" /\ adv_op # "new"
    /\ adv_now < MaxClock
    /\ adv_now' = adv_now + 1
    /\ adv_op' = "time"
    /\ NoCallReturned
    /\ adv_got' = NotGot
    /\ UNCHANGED <<adv_caching, adv_ttl, adv_cache, adv_last_set, adv_setter>>
    /\ UNCHANGED <<pipe_messages, variant, pipe_vars, conc_vars, fn_vars, smp_vars, hk_vars>>

\* await self.process_tool_call(tool_call).  adv_plain is what the same
\* call returns from a pipeline whose config has enable_caching false.
Advanced_process_tool_call ==
    /\ variant = "advanced" /\ adv_op # "new"
    /\ \E tool_call \in AdvCalls :
         LET r == process_tool_call(tool_call, adv_caching, adv_cache,
                                    adv_now, adv_ttl)
             stored == /\ adv_caching /\ ~r.hit
                       /\ "function" \in DOMAIN tool_call
         IN /\ adv_call' = <<tool_call>>
            /\ adv_response' = r.response
            /\ adv_cache' = r.cache
            /\ adv_plain' = process_tool_call(tool_call, FALSE, EmptyCache,
                                              adv_now, adv_ttl).response
            /\ adv_hit' = IF r.hit THEN adv_setter[cache_key(tool_call)]
                          ELSE << >>
            /\ adv_last_set' =
                 IF stored
                 THEN [adv_last_set EXCEPT ![cache_key(tool_call)] =
                         <<[timestamp |-> adv_now, response |-> r.response[1]]>>]
                 ELSE adv_last_set
            /\ adv_setter' =
                 IF stored
                 THEN [adv_setter EXCEPT ![cache_key(tool_call)] = <<tool_call>>]
                 ELSE adv_setter
    /\ adv_op' = "call"
    /\ adv_got' = NotGot
    /\ UNCHANGED <<adv_caching, adv_ttl, adv_now>>
    /\ UNCHANGED <<pipe_messages, variant, pipe_vars, conc_vars, fn_vars, smp_vars, hk_vars>>

\* self.tool_cache.get(key), called on its own.
Advanced_cache_get ==
    /\ variant = "advanced" /\ adv_op # "new" /\ adv_caching
    /\ \E key \in AdvKeys :
         LET r == tool_cache_get(adv_cache, key, adv_now, adv_ttl) IN
         /\ adv_got' = [key |-> key, value |-> r.value]
         /\ adv_cache' = r.cache
    /\ adv_op' = "get"
    /\ NoCallReturned
    /\ UNCHANGED <<adv_caching, adv_ttl, adv_now, adv_last_set, adv_setter>>
    /\ UNCHANGED <<pipe_messages, variant, pipe_vars, conc_vars, fn_vars, smp_vars, hk_vars>>

\* self.tool_cache.set(cache_key, response), called on its own.
Advanced_cache_set ==
    /\ variant = "advanced" /\ adv_op # "new" /\ adv_caching
    /\ \E c \in {x \in AdvCalls : "function" \in DOMAIN x} :
         LET key == cache_key(c) IN
         /\ adv_cache' = tool_cache_set(adv_cache, key, adv_now,
                                        tool_response(c))
         /\ adv_last_set' = [adv_last_set EXCEPT ![key] =
               <<[timestamp |-> adv_now, response |-> tool_response(c)]>>]
         /\ adv_setter' = [adv_setter EXCEPT ![key] = <<c>>]
    /\ adv_op' = "set"
    /\ NoCallReturned
    /\ adv_got' = NotGot
    /\ UNCHANGED <<adv_caching, adv_ttl, adv_now>>
    /\ UNCHANGED <<pipe_messages, variant, pipe_vars, conc_vars, fn_vars, smp_vars, hk_vars>>

\* on_shutdown (lines 448-453): self.tool_cache.clear()
Advanced_on_shutdown ==
    /\ variant = "advanced" /\ adv_op # "new" /\ adv_caching
    /\ adv_cache' = tool_cache_clear(adv_cache)
    /\ adv_last_set' = EmptyCache
    /\ adv_setter' = EmptyCache
    /\ adv_op' = "clear"
    /\ NoCallReturned
    /\ adv_got' = NotGot
    /\ UNCHANGED <<adv_caching, adv_ttl, adv_now>>
    /\ UNCHANGED <<pipe_messages, variant, pipe_vars, conc_vars, fn_vars, smp_vars, hk_vars>>

(***************************************************************************)
(* src/lettapipeline_simple.py                                             *)
(*                                                                         *)
(* pipe sends the user message with the letta client and polls             *)
(* get_messages up to five times.  A message of the assistant created      *)
(* after request_time answers with a description of its tool calls, with   *)
(* its text or with its message attribute.                                 *)
(***************************************************************************)
SIMPLE_MAX_ATTEMPTS == 5

SIMPLE_NAME == <<"L", "e", "t", "t", "a", " ", "C", "h", "a", "t">>

SIMPLE_SEND_FAILED_PREFIX ==
    <<"F", "a", "i", "l", "e", "d", " ", "t", "o", " ", "s", "e", "n", "d",
      " ", "m", "e", "s", "s", "a", "g", "e", ":", " ">>

SIMPLE_APOLOGY ==
    <<"I", " ", "a", "p", "o", "l", "o", "g", "i", "z", "e", ",", " ", "b",
      "u", "t", " ", "I", " ", "c", "o", "u", "l", "d", "n", "'", "t", " ",
      "p", "r", "o", "c", "e", "s", "s", " ", "y", "o", "u", "r", " ", "m",
      "e", "s", "s", "a", "g", "e", " ", "a", "t", " ", "t", "h", "i", "s",
      " ", "t", "i", "m", "e", ".">>

TOOL_PREFIX == <<"T", "o", "o", "l", " ">>

CALLED_WITH ==
    <<" ", "c", "a", "l", "l", "e", "d", " ", "w", "i", "t", "h", " ", "a",
      "r", "g", "s", ":", " ">>

\* str(e) of the exception send_message raises.
SimpleExcTexts == {EXC_TEXT, EMPTY}

\* The messages get_messages may list.
SimpleMessages ==
    { [role |-> "assistant", created_at |-> MaxTime, text |-> HiThere],
      [role |-> "assistant", created_at |-> 1, text |-> Old],
      [role |-> "assistant", created_at |-> MaxTime, text |-> EMPTY],
      [role |-> "assistant", created_at |-> MaxTime, message |-> HiThere],
      [role |-> "assistant", created_at |-> MaxTime],
      [role |-> "user", created_at |-> MaxTime, text |-> HiThere],
      ToolMsg("assistant", MaxTime, <<SendMessage(HiThere)>>),
      ToolMsg("assistant", MaxTime, <<ToolCall(SEND_MESSAGE, ArgsNotJson)>>),
      [role |-> "assistant", created_at |-> MaxTime, text |-> Old,
       tool_calls |-> ToolCalls(<<ToolCallNoFunction>>)] }

SimpleWindows == SeqsUpTo(SimpleMessages, MaxWindow)

\* What pipe returns with stream: list(response_text).
ListOf(s) == [kind |-> "list", text |-> s]

\* "\n".join(tool_responses)
RECURSIVE join_lines(_)
join_lines(lines) ==
    IF lines = << >> THEN EMPTY
    ELSE IF Len(lines) = 1 THEN lines[1]
    ELSE lines[1] \o <<"\n">> \o join_lines(Tail(lines))

\* The for loop over msg.tool_calls (lines 98-103): the responses so far,
\* or the JSONDecodeError of json.loads.
RECURSIVE simple_tool_responses(_, _, _)
simple_tool_responses(calls, i, tool_responses) ==
    IF i > Len(calls) THEN [ok |-> TRUE, lines |-> tool_responses]
    ELSE IF "function" \in DOMAIN calls[i]
    THEN LET args == json_loads(calls[i].function.arguments) IN
         IF args.ok
         THEN simple_tool_responses(calls, i + 1,
                  Append(tool_responses,
                         TOOL_PREFIX \o calls[i].function.name \o CALLED_WITH
                         \o PyStrOf(args.val)))
         ELSE [ok |-> FALSE, lines |-> << >>]
    ELSE simple_tool_responses(calls, i + 1, tool_responses)

\* Lines 107-111: msg.text, else msg.message, else the next message.
simple_regular(msg, i) ==
    IF "text" \in DOMAIN msg THEN Return(msg.text, i)
    ELSE IF "message" \in DOMAIN msg THEN Return(msg.message, i)
    ELSE NoReply

\* The body of the for loop for one message (lines 92-111).
simple_message(msg, i, after_time) ==
    IF ~(msg_time(msg) > after_time /\ msg.role = "assistant") THEN NoReply
    ELSE IF /\ "tool_calls" \in DOMAIN msg
            /\ ~msg.tool_calls.none
            /\ msg.tool_calls.calls # << >>
    THEN LET r == simple_tool_responses(msg.tool_calls.calls, 1, << >>) IN
         IF ~r.ok THEN Raised
         ELSE IF r.lines # << >> THEN Return(join_lines(r.lines), i)
         ELSE simple_regular(msg, i)
    ELSE simple_regular(msg, i)

\* for msg in reversed(messages) (line 91), from index i down.
RECURSIVE simple_scan_from(_, _, _)
simple_scan_from(messages, after_time, i) ==
    IF i = 0 THEN NoReply
    ELSE LET r == simple_message(messages[i], i, after_time) IN
         IF r.kind = "none"
         THEN simple_scan_from(messages, after_time, i - 1)
         ELSE r

simple_scan(messages, after_time) ==
    simple_scan_from(messages, after_time, Len(messages))

\* Lines 163-171: what pipe returns for the response_text it got.
simple_pipe_tail(text_or_none, stream) ==
    IF text_or_none.kind = "str" /\ Truthy(text_or_none.text)
    THEN IF stream THEN ListOf(text_or_none.text)
         ELSE StrValue(text_or_none.text)
    ELSE StrValue(SIMPLE_APOLOGY)

\* pipe up to the call of send_message (lines 136-146).
Simple_pipe ==
    /\ variant = "simple" /\ smp_pc = "idle"
    /\ \E b \in Bodies :
         /\ smp_body' = b
         /\ IF b.title
            THEN /\ smp_ret' = StrValue(SIMPLE_NAME)
                 /\ smp_pc' = "done"
                 /\ UNCHANGED smp_after
            ELSE /\ \E now \in RequestTimes : smp_after' = now
                 /\ smp_pc' = "send"
                 /\ UNCHANGED smp_ret
    /\ UNCHANGED <<smp_attempt, smp_sends, smp_failed>>
    /\ UNCHANGED <<pipe_messages, variant, pipe_vars, conc_vars, fn_vars, adv_vars, hk_vars>>

\* self.client.send_message (lines 149-158): it returns, or it raises and
\* pipe returns error_msg.
Simple_send_message ==
    /\ variant = "simple" /\ smp_pc = "send"
    /\ smp_sends' = smp_sends + 1
    /\ \/ /\ smp_pc' = "poll"
          /\ UNCHANGED <<smp_failed, smp_ret>>
       \/ /\ \E e \in SimpleExcTexts :
               smp_ret' = StrValue(SIMPLE_SEND_FAILED_PREFIX \o e)
          /\ smp_failed' = "send"
          /\ smp_pc' = "done"
    /\ UNCHANGED <<smp_body, smp_after, smp_attempt>>
    /\ UNCHANGED <<pipe_messages, variant, pipe_vars, conc_vars, fn_vars, adv_vars, hk_vars>>

\* One turn of the while loop of get_response_message (lines 88-115) and,
\* when the function returns, the rest of pipe (lines 161-171).
Simple_poll ==
    /\ variant = "simple" /\ smp_pc = "poll"
    /\ \/ \E messages \in SimpleWindows :
            LET r == simple_scan(messages, smp_after) IN
            CASE r.kind = "return" ->
                   /\ smp_ret' = simple_pipe_tail(Text(r.text), smp_body.stream)
                   /\ smp_pc' = "done"
                   /\ UNCHANGED <<smp_attempt, smp_failed>>
              [] r.kind = "raise" ->                       \* lines 118-120
                   /\ smp_ret' = simple_pipe_tail(None, smp_body.stream)
                   /\ smp_pc' = "done"
                   /\ UNCHANGED <<smp_attempt, smp_failed>>
              [] OTHER ->
                   /\ smp_attempt' = smp_attempt + 1
                   /\ IF smp_attempt + 1 < SIMPLE_MAX_ATTEMPTS
                      THEN UNCHANGED <<smp_pc, smp_ret>>
                      ELSE /\ smp_ret' = simple_pipe_tail(None, smp_body.stream)
                           /\ smp_pc' = "done"
                   /\ UNCHANGED smp_failed
       \/ /\ smp_failed' = "get"        \* get_messages raises: lines 118-120
          /\ smp_ret' = simple_pipe_tail(None, smp_body.stream)
          /\ smp_pc' = "done"
          /\ UNCHANGED smp_attempt
    /\ UNCHANGED <<smp_body, smp_after, smp_sends>>
    /\ UNCHANGED <<pipe_messages, variant, pipe_vars, conc_vars, fn_vars, adv_vars, hk_vars>>

(***************************************************************************)
(* src/lettapipeline_final.py: the hooks the host calls on the pipeline.   *)
(*                                                                         *)
(* self.client is the object create_client returned: its base_url and the  *)
(* call of create_client it came from.  The host edits valves.base_url     *)
(* and then calls on_valves_updated.                                       *)
(***************************************************************************)
MaxClients == 3     \* calls of create_client on one pipeline

DEFAULT_URL == "http://192.168.50.90:8283"
OTHER_URL == "http://localhost:8283"
Urls == {DEFAULT_URL, OTHER_URL}

Client(base_url, serial) == [base_url |-> base_url, serial |-> serial]

\* create_client(base_url=...): the n-th client made for this pipeline.
create_client(base_url, n) == Client(base_url, n)

\* return body
hook_return(b) == <<b>>

\* The host assigns valves.base_url.
Hooks_valves ==
    /\ variant = "final" /\ pc = "idle"
    /\ \E url \in Urls \ {hk_valves} : hk_valves' = url
    /\ hk_op' = "valves"
    /\ hk_arg' = << >>
    /\ hk_ret' = << >>
    /\ UNCHANGED <<hk_client, hk_created>>
    /\ UNCHANGED <<pipe_messages, variant, pipe_vars, conc_vars, fn_vars, adv_vars, smp_vars>>

\* inlet(body, user) (lines 174-177)
Hooks_inlet ==
    /\ variant = "final" /\ pc = "idle"
    /\ \E b \in Bodies :
         /\ hk_arg' = <<b>>
         /\ hk_ret' = hook_return(b)
    /\ hk_op' = "inlet"
    /\ UNCHANGED <<hk_valves, hk_client, hk_created>>
    /\ UNCHANGED <<pipe_messages, variant, pipe_vars, conc_vars, fn_vars, adv_vars, smp_vars>>

\* outlet(body, user) (lines 179-182)
Hooks_outlet ==
    /\ variant = "final" /\ pc = "idle"
    /\ \E b \in Bodies :
         /\ hk_arg' = <<b>>
         /\ hk_ret' = hook_return(b)
    /\ hk_op' = "outlet"
    /\ UNCHANGED <<hk_valves, hk_client, hk_created>>
    /\ UNCHANGED <<pipe_messages, variant, pipe_vars, conc_vars, fn_vars, adv_vars, smp_vars>>

\* on_startup() (lines 184-187): print, pass
Hooks_on_startup ==
    /\ variant = "final" /\ pc = "idle"
    /\ hk_op' = "on_startup"
    /\ hk_arg' = << >>
    /\ hk_ret' = << >>
    /\ UNCHANGED <<hk_valves, hk_client, hk_created>>
    /\ UNCHANGED <<pipe_messages, variant, pipe_vars, conc_vars, fn_vars, adv_vars, smp_vars>>

\* on_shutdown() (lines 189-192): print, pass
Hooks_on_shutdown ==
    /\ variant = "final" /\ pc = "idle"
    /\ hk_op' = "on_shutdown"
    /\ hk_arg' = << >>
    /\ hk_ret' = << >>
    /\ UNCHANGED <<hk_valves, hk_client, hk_created>>
    /\ UNCHANGED <<pipe_messages, variant, pipe_vars, conc_vars, fn_vars, adv_vars, smp_vars>>

\* on_valves_updated() (lines 194-197):
\* self.client = create_client(base_url=self.valves.base_url)
Hooks_on_valves_updated ==
    /\ variant = "final" /\ pc = "idle"
    /\ hk_created < MaxClients
    /\ hk_created' = hk_created + 1
    /\ hk_client' = create_client(hk_valves, hk_created + 1)
    /\ hk_op' = "on_valves_updated"
    /\ hk_arg' = << >>
    /\ hk_ret' = << >>
    /\ UNCHANGED hk_valves
    /\ UNCHANGED <<pipe_messages, variant, pipe_vars, conc_vars, fn_vars, adv_vars, smp_vars>>

(***************************************************************************)
(* The invocation.                                                         *)
(***************************************************************************)
Variants == {"final", "sync", "async", "enhanced", "concurrent"}

\* The state of a pipeline object after __init__, before pipe is called.
Start ==
    /\ pc = "idle"
    /\ body = [title |-> FALSE, stream |-> FALSE]
    /\ request_time = 0
    /\ attempt = 0
    /\ polls = 0
    /\ sends = << >>
    /\ window = << >>
    /\ scanned = NotScanned
    /\ response_text = Pending
    /\ ret = NotReturned
    /\ out = << >>
    /\ src_msg = << >>
    /\ all_stale = TRUE
    /\ events = << >>
    /\ accumulated_content = << >>
    /\ initial_response = << >>
    /\ poll_errors = 0
    /\ stop_value = Pending
    /\ chunk_size = 1
    /\ conversation = << >>
    /\ clock = 1
    /\ invocations = [p \in Procs |-> CallState("idle", 0, 0, Pending, 0)]
    /\ pending = {}
    /\ fn_pc = "idle"
    /\ fn_ret = NotReturned
    /\ fn_requests = 0
    /\ fn_stream = << >>
    /\ fn_rest = << >>
    /\ fn_chunks = << >>
    /\ fn_yielded = << >>
    /\ fn_from = << >>
    /\ fn_released = FALSE
    /\ adv_op = "new"
    /\ adv_caching = TRUE
    /\ adv_ttl = 0
    /\ adv_now = 0
    /\ adv_cache = EmptyCache
    /\ adv_call = << >>
    /\ adv_response = << >>
    /\ adv_plain = << >>
    /\ adv_hit = << >>
    /\ adv_got = NotGot
    /\ adv_last_set = EmptyCache
    /\ adv_setter = EmptyCache
    /\ smp_pc = "idle"
    /\ smp_body = [title |-> FALSE, stream |-> FALSE]
    /\ smp_after = 0
    /\ smp_attempt = 0
    /\ smp_sends = 0
    /\ smp_failed = "none"
    /\ smp_ret = NotReturned
    /\ hk_op = "__init__"
    /\ hk_valves = DEFAULT_URL
    /\ hk_client = Client(DEFAULT_URL, 1)
    /\ hk_created = 1
    /\ hk_arg = << >>
    /\ hk_ret = << >>
    /\ pipe_messages = << >>

Init == variant \in Variants /\ Start

Next ==
    \/ Final_pipe
    \/ Final_request_time
    \/ Final_send_message
    \/ Final_get_messages
    \/ Final_scan
    \/ Final_next_attempt
    \/ Final_stream_response
    \/ Sync_pipe
    \/ Sync_post
    \/ Sync_initial
    \/ Sync_get
    \/ Sync_scan
    \/ Async_pipe
    \/ Async_post
    \/ Async_get
    \/ Async_scan
    \/ Async_cancel
    \/ Enhanced_pipe
    \/ Enhanced_start
    \/ Enhanced_send_message
    \/ Enhanced_get_messages
    \/ Enhanced_scan
    \/ Enhanced_next_attempt
    \/ Enhanced_yield
    \/ \E p \in Procs : Conc_pipe(p)
    \/ \E p \in Procs : Conc_send_message(p)
    \/ \E p \in Procs : Conc_agent(p)
    \/ \E p \in Procs : Conc_get_messages(p)

Spec == Init /\ [][Next]_vars

\* One call of pipe of lettapipeline_final.py that is not held up for ever:
\* every call into the transport and every sleep comes back, and the caller
\* goes on drawing from a stream it was handed.
InitFinal == Init /\ variant = "final"

NextFinal ==
    \/ Final_pipe
    \/ Final_request_time
    \/ Final_send_message
    \/ Final_get_messages
    \/ Final_scan
    \/ Final_next_attempt
    \/ Final_stream_response

SpecFinal == InitFinal /\ [][NextFinal]_vars /\ WF_vars(NextFinal)

\* One call of Pipe.pipe of letta_openwebuifunction.py and the drawing of
\* the stream it returns.
InitFunction == variant = "function" /\ Start

NextFunction ==
    \/ Function_pipe
    \/ Function_request
    \/ Function_stream
    \/ Function_chunk

SpecFunction == InitFunction /\ [][NextFunction]_vars

\* A pipeline of lettapipeline_advanced.py: its tool calls and its cache.
InitAdvanced == variant = "advanced" /\ Start

NextAdvanced ==
    \/ Advanced_init
    \/ Advanced_time
    \/ Advanced_process_tool_call
    \/ Advanced_cache_get
    \/ Advanced_cache_set
    \/ Advanced_on_shutdown

SpecAdvanced == InitAdvanced /\ [][NextAdvanced]_vars

\* One call of pipe of lettapipeline_simple.py.
InitSimple == variant = "simple" /\ Start

NextSimple ==
    \/ Simple_pipe
    \/ Simple_send_message
    \/ Simple_poll

SpecSimple == InitSimple /\ [][NextSimple]_vars

\* The hooks of a pipeline of lettapipeline_final.py that is not in a call
\* of pipe.
InitHooks == variant = "final" /\ Start

NextHooks ==
    \/ Hooks_valves
    \/ Hooks_inlet
    \/ Hooks_outlet
    \/ Hooks_on_startup
    \/ Hooks_on_shutdown
    \/ Hooks_on_valves_updated

SpecHooks == InitHooks /\ [][NextHooks]_vars

(***************************************************************************)
(* Properties.                                                             *)
(***************************************************************************)
ReplyTexts == {HiThere, Old}

\* The message was created after t by the assistant.
IsFreshAssistant(m, t) ==
    /\ "created_at" \in DOMAIN m
    /\ m.created_at > t
    /\ m.role = "assistant"

\* The k-th tool call of client message m is a send_message call whose
\* arguments are a JSON object with a message member.
IsMessageCall(m, k) ==
    /\ "tool_calls" \in DOMAIN m
    /\ ~m.tool_calls.none
    /\ k \in 1 .. Len(m.tool_calls.calls)
    /\ "function" \in DOMAIN m.tool_calls.calls[k]
    /\ m.tool_calls.calls[k].function.name = SEND_MESSAGE
    /\ LET a == json_loads(m.tool_calls.calls[k].function.arguments) IN
         a.ok /\ a.val.type = "dict" /\ HasKey(a.val.items, KEY_MESSAGE)

CallMessage(m, k) ==
    Lookup(json_loads(m.tool_calls.calls[k].function.arguments).val.items,
           KEY_MESSAGE)

CallIndexes(m) ==
    IF "tool_calls" \in DOMAIN m THEN 1 .. Len(m.tool_calls.calls) ELSE {}

\* m carries a send_message call with the message text.
CarriesMessage(m, text) ==
    \E k \in CallIndexes(m) : IsMessageCall(m, k) /\ CallMessage(m, k) = text

\* w[i] is the only assistant message of w created after t.
OnlyFresh(w, t, i) ==
    /\ IsFreshAssistant(w[i], t)
    /\ \A j \in 1 .. Len(w) : j # i => ~IsFreshAssistant(w[j], t)

FinalScanned ==
    /\ variant = "final"
    /\ pc \in {"sleep", "done"}
    /\ window # << >>
    /\ scanned.kind # "pending"

\* C1: get_response_message of lettapipeline_final.py returns text only
\* from a message created after after_time whose role is assistant, and
\* that text is the message of one of its send_message calls; when no poll
\* listed an assistant message created after after_time it returns None.
C1_FreshAssistantOnly ==
    variant = "final" =>
      /\ response_text.kind = "str" =>
           /\ src_msg # << >>
           /\ IsFreshAssistant(src_msg[1], request_time)
           /\ CarriesMessage(src_msg[1], response_text.text)
      /\ (response_text.kind # "pending" /\ all_stale) => response_text = None

\* All five polls listed a reply of the assistant that is not newer than the
\* request, and None came back.
C1_Witness ==
    /\ variant = "final" /\ pc = "done"
    /\ all_stale
    /\ polls = FINAL_MAX_ATTEMPTS
    /\ response_text = None
    /\ window # << >>
    /\ \E i \in 1 .. Len(window[1]) :
         /\ window[1][i].role = "assistant"
         /\ "created_at" \in DOMAIN window[1][i]
         /\ window[1][i].created_at <= request_time
         /\ CarriesMessage(window[1][i], HiThere)

\* X is the one non-empty message that the send_message calls of m carry.
CarriesOnly(m, X) ==
    /\ CarriesMessage(m, X)
    /\ \A Y \in ReplyTexts : CarriesMessage(m, Y) => Y = X

\* C3 as stated: a window with exactly one assistant message created after
\* after_time, which carries a send_message call with the non-empty message
\* X (and none with another non-empty message), makes get_response_message
\* return X.
C3_Original ==
    FinalScanned =>
      \A i \in 1 .. Len(window[1]) : \A X \in ReplyTexts :
         (OnlyFresh(window[1], request_time, i)
            /\ CarriesOnly(window[1][i], X))
         => (scanned.kind = "return" /\ scanned.text = X)

\* C3 amended: such a window makes get_response_message return the message
\* of the first send_message call of that message whose arguments are a JSON
\* object with a message member (X, when no such call precedes X's).
C3_FirstMessageCall ==
    FinalScanned =>
      \A i \in 1 .. Len(window[1]) : \A k \in CallIndexes(window[1][i]) :
         (/\ OnlyFresh(window[1], request_time, i)
          /\ IsMessageCall(window[1][i], k)
          /\ \A j \in 1 .. (k - 1) : ~IsMessageCall(window[1][i], j))
         => /\ scanned.kind = "return"
            /\ scanned.text = CallMessage(window[1][i], k)
            /\ scanned.src = i
            /\ response_text = Text(scanned.text)

\* The reply sits behind a call with malformed arguments, in the only fresh
\* assistant message of a window that lists other messages after it.
C3_Witness ==
    /\ FinalScanned
    /\ \E i \in 1 .. Len(window[1]) :
         /\ i < Len(window[1])
         /\ OnlyFresh(window[1], request_time, i)
         /\ IsMessageCall(window[1][i], 2)
         /\ ~IsMessageCall(window[1][i], 1)
         /\ CarriesMessage(window[1][Len(window[1])], Old)
    /\ response_text = Text(HiThere)

\* C5: when get_response_message of lettapipeline_final.py ends without a
\* reply - always so after max_attempts polls - pipe returns the apology as
\* a string, streaming or not.
C5_ExhaustedApology ==
    (variant = "final" /\ pc = "done") =>
      /\ attempt = FINAL_MAX_ATTEMPTS => response_text = None
      /\ response_text = None => ret = StrValue(APOLOGY)

C5_Witness ==
    /\ variant = "final" /\ pc = "done"
    /\ attempt = FINAL_MAX_ATTEMPTS
    /\ polls = FINAL_MAX_ATTEMPTS
    /\ body.stream
    /\ ret = StrValue(APOLOGY)

\* The REST message is a send_message tool call with the non-empty message X.
IsSendReply(m, X) ==
    /\ Get(m, "message_type", "") = "tool_call_message"
    /\ "tool_call" \in DOMAIN m
    /\ Get(m.tool_call, "name", EMPTY) = SEND_MESSAGE
    /\ "arguments" \in DOMAIN m.tool_call
    /\ LET a == json_loads(m.tool_call.arguments) IN
         /\ a.ok /\ a.val.type = "dict"
         /\ HasKey(a.val.items, KEY_MESSAGE)
         /\ Lookup(a.val.items, KEY_MESSAGE) = X
    /\ X # EMPTY

\* msgs[i] is the only send_message reply that msgs lists.
OnlyReply(msgs, i, X) ==
    /\ IsSendReply(msgs[i], X)
    /\ \A j \in 1 .. Len(msgs) : \A Y \in ReplyTexts :
          j # i => ~IsSendReply(msgs[j], Y)

\* C2 as stated: pipe of lettapipeline.py (and of async_lettapipeline.py)
\* delivers a reply only from a message created after the request was made,
\* with role assistant.
C2_Original ==
    variant \in {"sync", "async"} =>
      \A i \in 1 .. Len(src_msg) : IsFreshAssistant(src_msg[i], request_time)

\* C4: in lettapipeline.py, when the send succeeded without a reply and the
\* first poll answered 200 with a JSON array that lists one send_message
\* tool_call_message, with message X, pipe returns X as a string.
C4_FirstPollReply ==
    (variant = "sync" /\ pc = "done" /\ polls = 1 /\ window # << >>) =>
      \A i \in 1 .. Len(window[1].messages) : \A X \in ReplyTexts :
         (/\ window[1].status = 200
          /\ window[1].kind = "list"
          /\ OnlyReply(window[1].messages, i, X))
         => ret = StrValue(X)

C4_Witness ==
    /\ variant = "sync" /\ pc = "done" /\ polls = 1
    /\ ~body.stream
    /\ window =
         <<Response(200, "list",
             <<ToolCallMessage(MaxTime,
                  RestCall(SEND_MESSAGE, ArgsMessage(HiThere))),
               ToolCallMessage(MaxTime,
                  RestCall(SEND_MESSAGE, ArgsMessage(EMPTY)))>>)>>
    /\ ret = StrValue(HiThere)

\* A terminal record: chat:completion with done:true, or chat:error.
IsTerminal(e) == (e.type = "chat:completion" /\ e.done) \/ e.type = "chat:error"

Terminals == {i \in 1 .. Len(events) : IsTerminal(events[i])}

Ended == pc \in {"done", "cancelled"}

\* C6 as stated: every invocation of pipe of async_lettapipeline.py emits
\* exactly one terminal record, and it is the last record: none ends
\* without one, none emits two, no record follows it.
C6_Original ==
    variant = "async" =>
      /\ Cardinality(Terminals) <= 1
      /\ Terminals # {} => IsTerminal(events[Len(events)])
      /\ Ended => Cardinality(Terminals) = 1

\* C6 amended: every invocation that is not a title request and is not
\* cancelled emits exactly one terminal record, as its last record; no
\* invocation emits two, and no record follows a terminal record.
C6_OneTerminalLast ==
    variant = "async" =>
      /\ Cardinality(Terminals) <= 1
      /\ Terminals # {} => (IsTerminal(events[Len(events)]) /\ pc = "done")
      /\ (pc = "done" /\ ~body.title) => Cardinality(Terminals) = 1

\* A poll delivered fragments and the done:true record after them.
C6_Witness ==
    /\ variant = "async" /\ pc = "done"
    /\ Len(events) >= 4
    /\ Terminals = {Len(events)}
    /\ events[Len(events)].type = "chat:completion"

\* The answer is a 200 JSON array none of whose send_message calls has
\* arguments that are JSON but no object: its scan raises nothing.
ScansClean(response) ==
    /\ response.status = 200
    /\ response.kind = "list"
    /\ \A i \in 1 .. Len(response.messages) :
         LET m == response.messages[i] IN
         (/\ Get(m, "message_type", "") = "tool_call_message"
          /\ "tool_call" \in DOMAIN m
          /\ Get(m.tool_call, "name", EMPTY) = SEND_MESSAGE
          /\ "arguments" \in DOMAIN m.tool_call)
         => LET a == json_loads(m.tool_call.arguments) IN
              a.ok => a.val.type = "dict"

\* C8: in the poll loop of async_lettapipeline.py every attempt, failed or
\* not, uses one of the 5 attempts and one GET; a failed attempt emits no
\* record and does not end the loop; and when, after failed attempts, a poll
\* is answered with a list that shows a reply, the terminal record is the
\* done:true record carrying it.
C8_ErrorsUseAttempts ==
    variant = "async" =>
      /\ polls <= ASYNC_MAX_RETRIES
      /\ pc = "poll" => (attempt = polls /\ attempt < ASYNC_MAX_RETRIES)
      /\ pc = "scan" => attempt = polls - 1
      /\ poll_errors <= polls
      /\ poll_errors > 0 =>
           \A i \in 1 .. Len(events) : events[i].type # "chat:error"
      /\ (pc = "done" /\ poll_errors > 0 /\ window # << >>
          /\ ScansClean(window[1])) =>
           \A i \in 1 .. Len(window[1].messages) : \A X \in ReplyTexts :
              IsSendReply(window[1].messages[i], X)
              => /\ InSeq(X, accumulated_content)
                 /\ events[Len(events)] =
                      Completion(JoinSpace(accumulated_content), TRUE)

\* Four attempts failed, the fifth shows the reply.
C8_Witness ==
    /\ variant = "async" /\ pc = "done"
    /\ poll_errors = ASYNC_MAX_RETRIES - 1
    /\ polls = ASYNC_MAX_RETRIES
    /\ events[Len(events)] = Completion(HiThere, TRUE)

\* C7 as stated: when get_messages raises on every call,
\* get_response_message of lettapipeline_enhanced.py returns None after
\* exactly max_attempts calls.
C7_Original ==
    (/\ variant = "enhanced"
     /\ response_text # Pending
     /\ polls > 0
     /\ poll_errors = polls)
    => (polls = MaxAttempts /\ response_text = None)

IsPrefix(p, t) == Len(p) <= Len(t) /\ p = SubSeq(t, 1, Len(p))

\* C9: the items drawn from the stream of lettapipeline_enhanced.py (slices
\* of stream_chunk_size) and of lettapipeline_final.py (characters) are
\* non-empty, at most one slice long, and concatenate to a prefix of the
\* extracted reply - to the whole reply once the stream has ended.
C9_ChunksRoundTrip ==
    variant \in {"final", "enhanced"} =>
      /\ IsPrefix(Concat(out), response_text.text)
      /\ \A k \in 1 .. Len(out) :
           /\ Len(out[k]) >= 1
           /\ Len(out[k]) <= (IF variant = "final" THEN 1 ELSE chunk_size)
      /\ pc = "exhausted" =>
           (response_text.kind = "str" /\ Concat(out) = response_text.text)

\* A reply streamed to its end in slices of 3 that do not divide it.
C9_Witness ==
    /\ variant = "enhanced" /\ pc = "exhausted"
    /\ chunk_size = 3
    /\ Len(response_text.text) % 3 # 0
    /\ Len(out) > 2
    /\ Concat(out) = response_text.text

\* C10 as stated: called without stream, pipe of lettapipeline_enhanced.py
\* hands its caller the extracted reply as a string, or the apology string
\* when polling found nothing.
C10_Original ==
    (/\ variant = "enhanced"
     /\ pc = "done"
     /\ ~body.title /\ ~body.stream
     /\ response_text # Pending)
    => ret = StrValue(IF response_text.kind = "str"
                         /\ Truthy(response_text.text)
                      THEN response_text.text ELSE APOLOGY)

\* A tool_call_message whose send_message call has arguments that are no
\* JSON text.
IsMalformedCall(m) ==
    /\ Get(m, "message_type", "") = "tool_call_message"
    /\ "tool_call" \in DOMAIN m
    /\ Get(m.tool_call, "name", EMPTY) = SEND_MESSAGE
    /\ "arguments" \in DOMAIN m.tool_call
    /\ ~json_loads(m.tool_call.arguments).ok

\* msgs lists a malformed call at i and a send_message reply at j.
MalformedThenReply(msgs, i, j) ==
    /\ IsMalformedCall(msgs[i])
    /\ \E X \in ReplyTexts : IsSendReply(msgs[j], X)

\* C11 as stated: in pipe of lettapipeline.py a send_message call with
\* malformed arguments is skipped and the scan goes on, in the answer to the
\* POST and in the polled list: a reply listed after it is returned, so the
\* scan of the answer to the POST never ends without a reply when a reply
\* follows a malformed call, and neither does the scan of the polled list.
C11_Original ==
    variant = "sync" =>
      /\ (pc = "get" /\ initial_response # << >>) =>
           LET msgs == initial_response[1].messages IN
           \A i, j \in 1 .. Len(msgs) : i < j => ~MalformedThenReply(msgs, i, j)
      /\ (pc = "done" /\ window # << >> /\ window[1].status = 200
          /\ window[1].kind = "list") =>
           LET msgs == window[1].messages IN
           \A i, j \in 1 .. Len(msgs) :
              MalformedThenReply(msgs, i, j) => scanned.kind = "return"

\* The message w[j] is eligible and its tool calls yield a non-empty reply.
HasReply(w, t, j) ==
    /\ Eligible(w[j], t)
    /\ "tool_calls" \in DOMAIN w[j]
    /\ ~w[j].tool_calls.none
    /\ LET r == final_tool_calls(w[j].tool_calls.calls, 1) IN
         r.kind = "str" /\ Truthy(r.text)

\* C12 as stated: when several messages of the polled window are eligible,
\* get_response_message of lettapipeline_final.py returns the reply of the
\* one with the greatest created_at, in whatever order the window lists
\* them.
C12_Original ==
    (FinalScanned /\ scanned.kind = "return") =>
      \A j \in 1 .. Len(window[1]) :
         HasReply(window[1], request_time, j)
         => msg_time(window[1][j]) <= msg_time(window[1][scanned.src])

\* C13 as stated: the poll loop of get_response_message of
\* lettapipeline_final.py issues at most 5 polls; a reply is returned by the
\* poll that first shows it, after as many get_messages calls as attempts
\* were made, and no poll follows it; None (Exhausted) is returned only
\* after max_attempts polls.
C13_Original ==
    variant = "final" =>
      /\ polls <= FINAL_MAX_ATTEMPTS
      /\ response_text.kind = "str" =>
           (polls = attempt + 1 /\ pc \notin {"get", "scan", "sleep"})
      /\ response_text = None => polls = FINAL_MAX_ATTEMPTS

\* msgs[j] is the first send_message reply that msgs lists, with message X.
FirstReply(msgs, j, X) ==
    /\ IsSendReply(msgs[j], X)
    /\ \A k \in 1 .. j - 1 : \A Y \in ReplyTexts : ~IsSendReply(msgs[k], Y)

\* The answer to the POST is a 200 JSON object that lists a reply X.
InitialReply(X) ==
    /\ initial_response # << >>
    /\ initial_response[1].status = 200
    /\ initial_response[1].kind = "object"
    /\ \E j \in 1 .. Len(initial_response[1].messages) :
          FirstReply(initial_response[1].messages, j, X)

\* C14 as stated: when the answer to the send request lists a send_message
\* call with a non-empty message, that message is delivered - returned by
\* pipe of lettapipeline.py, emitted as the done:true record by
\* async_lettapipeline.py - without a sleep and without a GET.
C14_Original ==
    \A X \in ReplyTexts :
      /\ (variant = "sync" /\ pc \in {"get", "done"} /\ InitialReply(X)) =>
           (pc = "done" /\ polls = 0 /\ ret = StrValue(X))
      /\ (variant = "async" /\ pc \in {"poll", "scan", "done"}
          /\ InitialReply(X)) =>
           /\ pc = "done" /\ polls = 0
           /\ events[Len(events)] = Completion(X, TRUE)

\* The messages of the incremental records: chat:completion, not done, not
\* the empty record that opens the stream.
IsIncremental(e) ==
    e.type = "chat:completion" /\ ~e.done /\ e.message # EMPTY

IncrementalMessages ==
    LET inc == SelectSeq(events, IsIncremental)
    IN [k \in 1 .. Len(inc) |-> inc[k].message]

\* The fragments in order, one space between neighbours.
RECURSIVE SpaceSeparated(_)
SpaceSeparated(acc) ==
    IF Len(acc) = 1 THEN acc[1]
    ELSE SpaceSeparated(SubSeq(acc, 1, Len(acc) - 1))
         \o <<" ">> \o acc[Len(acc)]

\* C15: in the poll loop of async_lettapipeline.py accumulated_content holds
\* no string twice; the incremental records are exactly its fragments, each
\* once, in the order they were first seen; and the done:true record that
\* ends a poll which found content carries the fragments in that order
\* with one space between them.
C15_DistinctFragmentsJoined ==
    variant = "async" =>
      /\ \A i, j \in 1 .. Len(accumulated_content) :
            accumulated_content[i] = accumulated_content[j] => i = j
      /\ polls > 0 => IncrementalMessages = accumulated_content
      /\ (/\ pc = "done" /\ polls > 0
          /\ events[Len(events)].type = "chat:completion"
          /\ events[Len(events)].done
          /\ events[Len(events)] # ApologyRecord) =>
           /\ accumulated_content # << >>
           /\ events[Len(events)].message = SpaceSeparated(accumulated_content)

\* A first poll gave "Hi there" and then raised; the second poll listed
\* "Hi there" again and "old": the stream is "", "Hi there", "old",
\* "Hi there old".
C15_Witness ==
    /\ variant = "async" /\ pc = "done" /\ polls = 2
    /\ accumulated_content = <<HiThere, Old>>
    /\ \E i \in 1 .. Len(window[1].messages) :
          IsSendReply(window[1].messages[i], HiThere)
    /\ events = <<Completion(EMPTY, FALSE), Completion(HiThere, FALSE),
                  Completion(Old, FALSE),
                  Completion(HiThere \o <<" ">> \o Old, TRUE)>>

\* C16: with two concurrent calls of pipe of lettapipeline_final.py on one
\* conversation, the reply a call returns is always one the agent created
\* after that call's request_time - the filter of line 79 is in place - and
\* yet it need not be the reply to that call's own message: the witness is
\* a call that returned the reply the agent produced for the other call.
C16_FreshButNotIsolated ==
    variant = "concurrent" =>
      \A p \in Procs :
        invocations[p].response_text.kind = "str" =>
          \E i \in 1 .. Len(conversation) :
             /\ conversation[i].role = "assistant"
             /\ conversation[i].created_at > invocations[p].request_time
             /\ conversation[i].of = invocations[p].src
             /\ invocations[p].response_text.text = ReplyFor(invocations[p].src)

\* Call 1 returned the reply to the message of call 2, before the agent
\* had answered call 1 at all.
C16_Witness ==
    /\ variant = "concurrent"
    /\ invocations[1].pc = "done"
    /\ invocations[1].src = 2
    /\ invocations[1].response_text = Text(ReplyFor(2))
    /\ 1 \in pending

\* What pipe of lettapipeline_final.py handed back is the reply, a stream
\* of the reply, the apology or an error string.
ReturnsListed ==
    \/ ret = NotReturned
    \/ ret = StrValue(APOLOGY)
    \/ ret = StrValue(ERROR_PREFIX \o EXC_TEXT)
    \/ /\ response_text.kind = "str"
       /\ ret \in {StrValue(response_text.text), GeneratorOf(response_text.text)}

UserSends == Cardinality({i \in 1 .. Len(sends) : sends[i] = "user"})

\* pipe has returned.
FinalReturned == variant = "final" /\ ret # NotReturned

\* C18 as stated: in each call of pipe of lettapipeline_final.py the user
\* message is sent exactly once, before the first poll; the poll loop is
\* entered after the send and left with a reply or with None; nothing is
\* sent once polling has started.
C18_Original ==
    /\ [](variant = "final" =>
            /\ UserSends <= 1
            /\ polls > 0 => (UserSends = 1 /\ sends[Len(sends)] = "user")
            /\ response_text # Pending => polls > 0
            /\ FinalReturned => UserSends = 1)
    /\ [][(variant = "final" /\ polls > 0) => sends' = sends]_vars

\* C18 amended: a call that is not a title request and whose context
\* message, if it has one, was sent without an exception sends the user
\* message exactly once, as the last message it sends and before the first
\* poll; a title request sends nothing, and a call whose context send
\* raised does not send the user message; no call sends it twice, and
\* nothing is sent once polling has started.
C18_SentOnceBeforePolling ==
    /\ [](variant = "final" =>
            /\ UserSends <= 1
            /\ polls > 0 => (UserSends = 1 /\ sends[Len(sends)] = "user")
            /\ response_text # Pending => polls > 0
            /\ FinalReturned =>
                 UserSends = (IF body.title \/ sends = <<"system">>
                              THEN 0 ELSE 1))
    /\ [][(variant = "final" /\ polls > 0) => sends' = sends]_vars

\* Five polls after one context message and one user message.
C18_Witness ==
    /\ variant = "final" /\ pc = "done"
    /\ polls = FINAL_MAX_ATTEMPTS
    /\ sends = <<"system", "user">>
    /\ response_text = None

\* The text sub occurs in the text s.
Embeds(sub, s) ==
    \E k \in 0 .. Len(s) - Len(sub) : SubSeq(s, k + 1, k + Len(sub)) = sub

\* The send request was answered with a status other than 200.
PostFailed ==
    /\ initial_response # << >>
    /\ initial_response[1].status # 200

\* C19 as stated: a non-2xx answer to the send request is surfaced with the
\* status code in the message and without a poll - as the returned string
\* of lettapipeline.py, as a chat:error record of async_lettapipeline.py -
\* and neither a done:true record nor a reply is delivered.
C19_Original ==
    /\ (variant = "sync" /\ pc = "done" /\ PostFailed) =>
         /\ polls = 0
         /\ ret.kind = "str"
         /\ ret.text \notin ReplyTexts
         /\ Embeds(STATUS_500, ret.text)
    /\ (variant = "async" /\ pc = "done" /\ PostFailed) =>
         /\ polls = 0
         /\ events # << >>
         /\ events[Len(events)].type = "chat:error"
         /\ Embeds(STATUS_500, events[Len(events)].message)
         /\ \A k \in 1 .. Len(events) :
              /\ ~events[k].done
              /\ events[k].message \notin ReplyTexts

\* The polled answer is a 200 answer of one of the two shapes of the
\* list-messages endpoint whose only message is a send_message reply X.
PolledReply(X) ==
    /\ window # << >>
    /\ window[1].status = 200
    /\ window[1].kind \in {"list", "object"}
    /\ Len(window[1].messages) = 1
    /\ IsSendReply(window[1].messages[1], X)

\* C20 as stated: a poll accepts the JSON array of messages and the object
\* whose messages field holds that array; the send_message reply of either
\* shape is delivered - returned by pipe of lettapipeline.py, part of the
\* done:true record emitted by async_lettapipeline.py.
C20_Original ==
    [][\A X \in ReplyTexts :
         /\ (variant = "sync" /\ pc = "scan" /\ PolledReply(X)) =>
              (pc' = "done" /\ ret' = StrValue(X))
         /\ (variant = "async" /\ pc = "scan" /\ PolledReply(X)) =>
              /\ pc' = "done"
              /\ events'[Len(events')].type = "chat:completion"
              /\ events'[Len(events')].done
              /\ Embeds(X, events'[Len(events')].message)]_vars

\* The places of the event stream where a complete DONE frame ends.
DoneEnds(stream) ==
    {i + Len(DoneFrame) - 1 : i \in
        {k \in 1 .. Len(stream) - Len(DoneFrame) + 1 :
            SubSeq(stream, k, k + Len(DoneFrame) - 1) = DoneFrame}}

\* The k-th item yielded was taken from a frame that follows a DONE frame.
TakenAfterDone(k) ==
    /\ fn_yielded[k].kind = "text"
    /\ \E e \in DoneEnds(fn_stream) : fn_from[k] > e

\* C21 as stated: when the event stream delivers the frame 'data: [DONE]',
\* the generator of _handle_streaming stops at it: nothing taken from a
\* frame that comes after it, in the same chunk or a later one, is yielded.
C21_Original ==
    variant = "function" =>
      \A k \in 1 .. Len(fn_yielded) : ~TakenAfterDone(k)

\* C22 as stated: the cache is a pure optimization: process_tool_call
\* returns with caching enabled a response with the same tool_name, tool_id,
\* tool_type, status and result as it returns for the same call with
\* caching disabled.
C22_Original ==
    (variant = "advanced" /\ adv_op = "call") => adv_response = adv_plain

\* C23 as stated: two tool calls share a cache entry only if they have the
\* same tool name and the same arguments string: a cache hit never returns
\* a response computed for a different (tool name, arguments) pair.
C23_Original ==
    (variant = "advanced" /\ adv_op = "call" /\ adv_hit # << >>) =>
      /\ adv_hit[1].function.name = adv_call[1].function.name
      /\ adv_hit[1].function.arguments = adv_call[1].function.arguments

\* The response get(key) is to return now: the one of the last set, while
\* fewer than ttl seconds have passed since that set.
Alive(key) ==
    /\ adv_last_set[key] # << >>
    /\ adv_now - adv_last_set[key][1].timestamp < adv_ttl

\* C30: get(key) returns the response of the last set(key, .) while fewer
\* than ttl seconds have passed since it and None from then on, the first
\* such get removing the entry; set replaces the response and restarts the
\* lifetime; after clear every get returns None.
C30_TtlHonoured ==
    variant = "advanced" =>
      /\ adv_op = "get" =>
           /\ adv_got.value = (IF Alive(adv_got.key)
                               THEN <<adv_last_set[adv_got.key][1].response>>
                               ELSE << >>)
           /\ ~Alive(adv_got.key) => adv_cache[adv_got.key] = << >>
      /\ \A key \in AdvKeys :
           /\ Alive(key) => adv_cache[key] = adv_last_set[key]
           /\ adv_cache[key] \in {<< >>, adv_last_set[key]}
      /\ adv_op = "clear" => adv_cache = EmptyCache

\* A get found an entry whose lifetime was over, returned None and removed
\* the entry.
C30_Witness ==
    /\ variant = "advanced" /\ adv_op = "get"
    /\ adv_ttl > 0
    /\ adv_last_set[adv_got.key] # << >>
    /\ ~Alive(adv_got.key)
    /\ adv_got.value = << >>
    /\ adv_cache[adv_got.key] = << >>

\* The message carries plain text and no tool calls.
IsPlainText(msg) ==
    /\ "text" \in DOMAIN msg
    /\ Truthy(msg.text)
    /\ "tool_calls" \notin DOMAIN msg

\* C24 as stated: an eligible assistant message that carries plain text and
\* no send_message tool call yields that text as the result of
\* get_response_message of lettapipeline_final.py.
C24_Original ==
    (/\ variant = "final" /\ window # << >> /\ scanned # NotScanned
     /\ Len(window[1]) = 1
     /\ Eligible(window[1][1], request_time)
     /\ IsPlainText(window[1][1])) =>
      scanned = Return(window[1][1].text, 1)

\* The tool call names a tool other than send_message.
IsOtherTool(tool_call) ==
    /\ "function" \in DOMAIN tool_call
    /\ tool_call.function.name # SEND_MESSAGE

IsNotOtherTool(tool_call) == ~IsOtherTool(tool_call)

\* The polled list without the calls of other tools.
WithoutOtherTools(messages) ==
    [i \in 1 .. Len(messages) |->
        IF "tool_calls" \in DOMAIN messages[i] /\ ~messages[i].tool_calls.none
        THEN [messages[i] EXCEPT !.tool_calls.calls =
                 SelectSeq(messages[i].tool_calls.calls, IsNotOtherTool)]
        ELSE messages[i]]

\* C25: a tool call whose name is not send_message contributes nothing to
\* the result of get_response_message and is no error: the scan of a polled
\* list comes to what it comes to without those calls, so a send_message
\* call after it in the same message, or in a message examined later, is
\* still found.
C25_OtherToolsSkipped ==
    (variant = "final" /\ window # << >> /\ scanned # NotScanned) =>
      scanned = final_scan(WithoutOtherTools(window[1]), request_time)

\* The message examined first holds only a call of another tool, and the
\* send_message call of the message examined after it was returned.
C25_Witness ==
    /\ variant = "final" /\ window # << >> /\ Len(window[1]) = 2
    /\ Eligible(window[1][2], request_time)
    /\ "tool_calls" \in DOMAIN window[1][2]
    /\ ~window[1][2].tool_calls.none
    /\ Len(window[1][2].tool_calls.calls) = 1
    /\ IsOtherTool(window[1][2].tool_calls.calls[1])
    /\ scanned = Return(HiThere, 1)
    /\ response_text = Text(HiThere)

\* C26: in a non-title invocation of pipe of async_lettapipeline.py the
\* first record is chat:completion with message '' and done false, emitted
\* before the message is sent to the agent; the records between it and the
\* terminal record are chat:completion with done false; chat:error is
\* emitted only as the terminal record, in place of the done:true record.
C26_EnvelopeOrder ==
    (variant = "async" /\ pc # "idle" /\ ~body.title) =>
      /\ events # << >>
      /\ events[1] = Completion(EMPTY, FALSE)
      /\ pc = "post" => (sends = << >> /\ Len(events) = 1)
      /\ \A k \in 1 .. Len(events) :
           /\ events[k].type \in {"chat:completion", "chat:error"}
           /\ k < Len(events) =>
                (events[k].type = "chat:completion" /\ ~events[k].done)
           /\ events[k].type = "chat:error" =>
                (k = Len(events) /\ k > 1 /\ pc = "done")

\* The message was sent, two fragments were emitted during polling and the
\* done:true record ended the stream.
C26_Witness ==
    /\ variant = "async" /\ pc = "done" /\ ~body.title
    /\ sends = <<"user">>
    /\ polls > 0
    /\ Len(events) = 4
    /\ events[4].type = "chat:completion" /\ events[4].done
    /\ ~events[2].done /\ ~events[3].done

\* C27: when the caller cancels an invocation of pipe of
\* async_lettapipeline.py suspended in the POST, in the delay between polls
\* or in the GET, the cancellation leaves the poll loop: no further poll is
\* issued and no further record is emitted.
C27_CancelStops ==
    /\ [][Async_cancel =>
            (pc' = "cancelled" /\ polls' = polls /\ events' = events)]_vars
    /\ [][(variant = "async" /\ pc = "cancelled") =>
            (pc' = "cancelled" /\ polls' = polls /\ events' = events
             /\ sends' = sends)]_vars

\* The invocation was cancelled after its second poll had been issued.
C27_Witness ==
    /\ variant = "async" /\ pc = "cancelled"
    /\ polls = 2 /\ attempt = 2
    /\ sends = <<"user">>
    /\ Len(events) >= 1

(***************************************************************************)
(* lettapipeline_simple.py                                                 *)
(***************************************************************************)
\* str.lower() of one character, for the letters the texts hold in capitals.
lower_char(c) ==
    CASE c = "E" -> "e" [] c = "F" -> "f" [] c = "I" -> "i" [] c = "T" -> "t"
      [] c = "H" -> "h" [] c = "L" -> "l" [] c = "C" -> "c"
      [] OTHER -> c

lower(s) == [k \in 1 .. Len(s) |-> lower_char(s[k])]

\* "error" in response.lower() or "failed" in response.lower()
SaysErrorOrFailed(response) ==
    \/ Embeds(<<"e", "r", "r", "o", "r">>, lower(response))
    \/ Embeds(<<"f", "a", "i", "l", "e", "d">>, lower(response))

\* C28 as stated: when send_message raised, or get_messages raised during
\* polling, pipe of lettapipeline_simple.py called without stream returns a
\* string that contains 'error' or 'failed' in any case of letters.
C28_Original ==
    (/\ variant = "simple" /\ smp_pc = "done"
     /\ ~smp_body.title /\ ~smp_body.stream
     /\ smp_failed # "none")
    => (smp_ret.kind = "str" /\ SaysErrorOrFailed(smp_ret.text))

(***************************************************************************)
(* The hooks of lettapipeline_final.py                                     *)
(***************************************************************************)
IsHookCall ==
    \/ Hooks_inlet
    \/ Hooks_outlet
    \/ Hooks_on_startup
    \/ Hooks_on_shutdown
    \/ Hooks_on_valves_updated

\* C29 as stated: inlet and outlet of lettapipeline_final.py return the body
\* they were given, and no hook - inlet, outlet, on_startup, on_shutdown,
\* on_valves_updated - changes the valves or the client of the pipeline or
\* sends a message to the agent.
C29_Original ==
    [][IsHookCall =>
         /\ hk_valves' = hk_valves
         /\ hk_client' = hk_client
         /\ sends' = sends
         /\ (hk_op' \in {"inlet", "outlet"} => hk_ret' = hk_arg')]_vars

(***************************************************************************)
(* letta_openwebuifunction.py: failures of the POST                        *)
(***************************************************************************)
TIMED_OUT_PREFIX ==
    <<"L", "e", "t", "t", "a", " ", "E", "r", "r", "o", "r", ":", " ", "R",
      "e", "q", "u", "e", "s", "t", " ", "t", "i", "m", "e", "d", " ", "o",
      "u", "t", ".">>

MAX_RETRIES_PREFIX ==
    <<"L", "e", "t", "t", "a", " ", "E", "r", "r", "o", "r", ":", " ", "M",
      "a", "x", " ", "r", "e", "t", "r", "i", "e", "s", " ", "e", "x", "c",
      "e", "e", "d", "e", "d", ".">>

\* Every attempt of _send_request timed out or failed to connect: no
\* response was obtained, so none was released.
PostAttemptsFailed ==
    /\ variant = "function" /\ fn_pc = "done"
    /\ fn_requests = SEND_ATTEMPTS
    /\ fn_stream = << >>
    /\ ~fn_released

HasErrorItem ==
    \E k \in 1 .. Len(fn_yielded) : fn_yielded[k].kind = "chat:error"

\* C31 as stated: when the POST of letta_openwebuifunction.py times out (or
\* the connection retries are exhausted) Pipe.pipe returns a string that
\* begins 'Letta Error: Request timed out.' ('Letta Error: Max retries
\* exceeded.'), and the failure is not an item of the returned stream.
C31_Original ==
    PostAttemptsFailed =>
      /\ fn_ret.kind = "str"
      /\ \/ IsPrefix(TIMED_OUT_PREFIX, fn_ret.text)
         \/ IsPrefix(MAX_RETRIES_PREFIX, fn_ret.text)
      /\ ~HasErrorItem

(***************************************************************************)
(* Empty replies                                                           *)
(***************************************************************************)
\* A tool_call_message of the REST endpoints whose send_message call
\* carries the message ''.
IsEmptyReply(msg) ==
    /\ Get(msg, "message_type", "") = "tool_call_message"
    /\ LET tool_call == Get(msg, "tool_call", EmptyDict) IN
         /\ Get(tool_call, "name", EMPTY) = SEND_MESSAGE
         /\ "arguments" \in DOMAIN tool_call
         /\ LET a == json_loads(tool_call.arguments) IN
              /\ a.ok
              /\ a.val.type = "dict"
              /\ HasKey(a.val.items, KEY_MESSAGE)
              /\ Lookup(a.val.items, KEY_MESSAGE) = EMPTY

IsNotEmptyReply(msg) == ~IsEmptyReply(msg)

\* The answer without those messages.
WithoutEmptyReplies(response) ==
    [response EXCEPT !.messages = SelectSeq(@, IsNotEmptyReply)]

\* The first send_message call with a message member of the only fresh
\* assistant message of the polled list carries ''.
FirstReplyIsEmpty ==
    /\ FinalScanned
    /\ \E i \in 1 .. Len(window[1]) : \E k \in CallIndexes(window[1][i]) :
         /\ OnlyFresh(window[1], request_time, i)
         /\ IsMessageCall(window[1][i], k)
         /\ \A j \in 1 .. (k - 1) : ~IsMessageCall(window[1][i], j)
         /\ CallMessage(window[1][i], k) = EMPTY

ReturnedEmpty ==
    variant = "final" /\ scanned.kind = "return" /\ scanned.text = EMPTY

\* C32: when the send_message call of the agent carries '',
\* get_response_message of lettapipeline_final.py returns '' and polls no
\* more, and pipe returns the apology as a string, with stream too; in
\* lettapipeline.py and async_lettapipeline.py the scans of the answer to
\* the POST and of the polled list come to what they come to without the
\* messages whose call carries '', and no record carries an empty fragment.
C32_EmptyReplyIsNoReply ==
    /\ [](FirstReplyIsEmpty => ReturnedEmpty)
    /\ [](ReturnedEmpty =>
            /\ pc = "done"
            /\ response_text = Text(EMPTY)
            /\ ret = StrValue(APOLOGY))
    /\ [][ReturnedEmpty => (polls' = polls /\ ret' = ret)]_vars
    /\ [][(Sync_initial /\ initial_response[1].status = 200) =>
            LET r == sync_initial_scan(
                        WithoutEmptyReplies(initial_response[1]))
            IN IF r.kind = "return"
               THEN pc' = "done" /\ ret' = StrValue(r.text)
               ELSE pc' = "get"]_vars
    /\ [][Sync_scan =>
            LET r == sync_poll_scan(WithoutEmptyReplies(window[1]))
            IN ret' = StrValue(IF r.kind = "return" THEN r.text
                               ELSE APOLOGY)]_vars
    /\ [][Async_scan =>
            LET r == async_poll_scan(WithoutEmptyReplies(window[1]),
                                     accumulated_content, src_msg)
            IN /\ accumulated_content' = r.acc
               /\ \A k \in 2 .. Len(events') : events'[k].message # EMPTY]_vars

\* A call of pipe of lettapipeline_final.py with stream whose first poll
\* found the call with '': the polling ended there and the apology was
\* returned as a string.
C32_Witness ==
    /\ FirstReplyIsEmpty
    /\ ReturnedEmpty
    /\ body.stream
    /\ polls = 1 /\ attempt = 0
    /\ pc = "done"
    /\ ret = StrValue(APOLOGY)

(***************************************************************************)
(* letta_openwebuifunction.py: the frames and the items                    *)
(***************************************************************************)
\* The items of the frames of a whole event stream, in stream order: the
\* content of every assistant_message frame that has one, and a newline.
RECURSIVE ItemsOfPieces(_)
ItemsOfPieces(pieces) ==
    IF pieces = << >> THEN << >>
    ELSE LET r == handle_chunk(Head(pieces).text) IN
         (IF r.kind = "yield" THEN <<TextItem(r.content)>> ELSE << >>)
         \o ItemsOfPieces(Tail(pieces))

ItemsOfStream(stream) == ItemsOfPieces(split(stream, 0))

\* The stream holds assistant_message and usage_statistics frames only.
IsMessageStream(stream) ==
    \A k \in 1 .. Len(stream) :
        stream[k] = DATA =>
          /\ SubSeq(stream, k + 1, k + Len(DONE_TEXT)) # DONE_TEXT
          /\ SubSeq(stream, k + 1, k + Len(ArgsList)) # ArgsList

\* The generator read the stream to its end and no call raised.
StreamReadThrough ==
    /\ variant = "function" /\ fn_pc = "done"
    /\ fn_ret.kind = "generator"
    /\ fn_released
    /\ ~HasErrorItem
    /\ fn_rest = << >>

\* C33 as stated: whatever chunks the transport delivers, the generator of
\* _handle_streaming yields exactly the non-empty content of each
\* assistant_message frame of the event stream, in stream order, each
\* followed by a newline; a frame cut in two by the transport is delivered
\* once.
C33_Original ==
    (StreamReadThrough /\ IsMessageStream(fn_stream)) =>
      fn_yielded = ItemsOfStream(fn_stream)

(***************************************************************************)
(* async_lettapipeline.py: the apology and the fragments                   *)
(***************************************************************************)
\* An incremental record that carries a fragment of the reply.
IsFragmentRecord(e) ==
    e.type = "chat:completion" /\ ~e.done /\ e.message # EMPTY

EmittedFragment == \E k \in 1 .. Len(events) : IsFragmentRecord(events[k])

\* C34 as stated: in pipe of async_lettapipeline.py the apology is the
\* terminal record only of invocations that emitted no fragment; after an
\* incremental record with a fragment the terminal record carries the
\* joined fragments.
C34_Original ==
    (variant = "async" /\ pc = "done" /\ EmittedFragment) =>
      /\ events[Len(events)] # ApologyRecord
      /\ events[Len(events)] =
           Completion(JoinSpace(accumulated_content), TRUE)

(***************************************************************************)
(* Title requests                                                          *)
(***************************************************************************)
TitleRequested ==
    /\ variant \in {"final", "sync", "async"}
    /\ pc # "idle"
    /\ body.title

\* C35: a title request is answered with the name of the pipeline - the
\* string pipe returns in lettapipeline_final.py and lettapipeline.py, the
\* one chat:title record in async_lettapipeline.py - and nothing is sent to
\* the agent and nothing is polled.
C35_TitleOnly ==
    TitleRequested =>
      /\ pc = "done"
      /\ sends = << >>
      /\ polls = 0
      /\ attempt = 0
      /\ window = << >>
      /\ initial_response = << >>
      /\ CASE variant = "final" -> ret = StrValue(FINAL_NAME) /\ events = << >>
           [] variant = "sync" -> ret = StrValue(SYNC_NAME) /\ events = << >>
           [] OTHER -> events = <<ChatTitle(ASYNC_NAME)>> /\ ret = NotReturned

\* A title request to async_lettapipeline.py was answered.
C35_Witness ==
    /\ variant = "async"
    /\ body.title
    /\ pc = "done"
    /\ events = <<ChatTitle(ASYNC_NAME)>>
    /\ sends = << >>
    /\ polls = 0

(***************************************************************************)
(* lettapipeline_final.py: the context message                             *)
(***************************************************************************)
\* A prior assistant message carries a source that formats to text.
HasFormattedSource(messages) ==
    \E i \in 1 .. Len(messages) :
        /\ messages[i].role = "assistant"
        /\ "sources" \in DOMAIN messages[i]
        /\ \E k \in 1 .. Len(messages[i].sources) :
             format_source_content(messages[i].sources[k]) # << >>

SystemSends == {k \in 1 .. Len(sends) : sends[k] = "system"}

\* C36: in pipe of lettapipeline_final.py, when a prior assistant message
\* carries a source that formats to non-empty text, exactly one system
\* message is sent, before request_time is recorded and before the user
\* message is sent; when no source formats to text no system message is sent.
C36_ContextFirst ==
    /\ [][(Final_pipe /\ ~body'.title) =>
            /\ request_time' = request_time
            /\ sends' = IF HasFormattedSource(pipe_messages')
                        THEN <<"system">> ELSE << >>]_vars
    /\ [][Final_request_time =>
            /\ sends' = sends
            /\ \A k \in 1 .. Len(sends) : sends[k] # "user"]_vars
    /\ [][(variant = "final" /\ pc # "idle") =>
            (sends' = sends \/ sends' = Append(sends, "user"))]_vars
    /\ [](variant = "final" => SystemSends \subseteq {1})

\* The second of two prior messages carries the sources that format to
\* text; the context was sent and request_time is to be recorded.
C36_Witness ==
    /\ variant = "final" /\ pc = "time"
    /\ Len(pipe_messages) = 2
    /\ ~HasFormattedSource(<<pipe_messages[1]>>)
    /\ "sources" \in DOMAIN pipe_messages[2]
    /\ Len(pipe_messages[2].sources) = 2
    /\ HasFormattedSource(pipe_messages)
    /\ sends = <<"system">>

====
